---- MODULE Spec2Model ----
(***************************************************************************)
(* Model of the bauhaus pattern generation engine: the spacing algorithms  *)
(* of the ring, square and polygon families, the path builder and the ring *)
(* generator.                                                              *)
(*                                                                         *)
(* Numbers.  The code computes with JavaScript doubles.  The model         *)
(* computes with exact values of the field Q(PHI): a number is a triple    *)
(* <<a, b, d>> standing for (a + b*PHI) / d, with d > 0 and gcd(a,b,d) = 1 *)
(* (so equal numbers are equal triples).  Rationals are the triples with   *)
(* b = 0.  PHI*PHI = PHI + 1 is the only fact about PHI the arithmetic     *)
(* uses.  Floating-point rounding error is not modelled.                   *)
(***************************************************************************)
EXTENDS Integers, Sequences, FiniteSets, TLC

----------------------------------------------------------------------------
(* Exact arithmetic on (a + b*PHI) / d *)

Abs(n) == IF n < 0 THEN -n ELSE n

RECURSIVE Gcd(_, _)
Gcd(m, n) == IF n = 0 THEN m ELSE Gcd(n, m % n)

\* the triple of (a + b*PHI) / d in lowest terms, d /= 0
Norm(a, b, d) ==
  LET g == Gcd(Gcd(Abs(a), Abs(b)), Abs(d))
      s == IF d < 0 THEN -1 ELSE 1
  IN  <<(s * a) \div g, (s * b) \div g, (s * d) \div g>>

Rat(n, d) == Norm(n, 0, d)
Num(n) == <<n, 0, 1>>
Zero == Num(0)
One == Num(1)

\* JavaScript's undefined (an option or a configuration field that is absent)
Undefined == <<0, 0, 0>>

\* the doubles that are no finite number; a triple with d = 0 is no number
PosInf == <<1, 0, 0>>
NegInf == <<0 - 1, 0, 0>>
NaN == <<0, 1, 0>>
IsFinite(x) == x[3] # 0

Add(x, y) == Norm(x[1] * y[3] + y[1] * x[3], x[2] * y[3] + y[2] * x[3], x[3] * y[3])
Neg(x) == <<-x[1], -x[2], x[3]>>
Sub(x, y) == Add(x, Neg(y))
Mul(x, y) ==
  Norm(x[1] * y[1] + x[2] * y[2],
       x[1] * y[2] + x[2] * y[1] + x[2] * y[2],
       x[3] * y[3])

\* 1/x for x /= 0: the conjugate of a + b*PHI is a + b - b*PHI and
\* (a + b*PHI) * (a + b - b*PHI) = a*a + a*b - b*b
Inv(x) ==
  LET n == x[1] * x[1] + x[1] * x[2] - x[2] * x[2]
  IN  Norm(x[3] * (x[1] + x[2]), -(x[3] * x[2]), n)
Div(x, y) == Mul(x, Inv(y))

\* sign of p + q*sqrt(5), for integers p and q
SignSqrt5(p, q) ==
  IF p = 0 /\ q = 0 THEN 0
  ELSE IF p >= 0 /\ q >= 0 THEN 1
  ELSE IF p <= 0 /\ q <= 0 THEN -1
  ELSE IF p > 0 THEN (IF p * p > 5 * q * q THEN 1 ELSE -1)
  ELSE (IF 5 * q * q > p * p THEN 1 ELSE -1)

\* sign of x: a + b*PHI = (2a + b + b*sqrt(5)) / 2
Sign(x) == SignSqrt5(2 * x[1] + x[2], x[2])

IsZero(x) == Sign(x) = 0
Lt(x, y) == Sign(Sub(y, x)) > 0
Le(x, y) == Sign(Sub(y, x)) >= 0
Gt(x, y) == Lt(y, x)

\* Math.floor(x): the integer n with n <= x < n + 1.  The estimate uses
\* PHI ~ 1618/1000 and is corrected by the exact comparison.
Floor(x) ==
  LET est == (x[1] * 1000 + x[2] * 1618) \div (x[3] * 1000)
  IN  CHOOSE n \in (est - 2)..(est + 2) : Le(Num(n), x) /\ Lt(x, Num(n + 1))

\* x || dflt: JavaScript's falsy test on a number (undefined and 0 are falsy)
OrDefault(x, dflt) == IF x = Undefined \/ IsZero(x) THEN dflt ELSE x

----------------------------------------------------------------------------
(* Geometry utilities *)

\* Golden ratio constant
PHI == <<0, 1, 1>>

\* Math.pow(x, n) for an integer n >= 0
RECURSIVE pow(_, _)
pow(x, n) == IF n <= 0 THEN One ELSE Mul(x, pow(x, n - 1))

\* Round number to specified decimal places: Math.round(v * factor) / factor,
\* where Math.round(y) = floor(y + 1/2)
RECURSIVE pow10(_)
pow10(n) == IF n <= 0 THEN 1 ELSE 10 * pow10(n - 1)
round(value, decimals) ==
  LET factor == pow10(decimals)
  IN  IF value = Undefined THEN NaN
      ELSE IF ~IsFinite(value) THEN value
      ELSE Rat(Floor(Add(Mul(value, Num(factor)), Rat(1, 2))), factor)

\* x / y in doubles: a division by zero gives an infinity or NaN
ExtDiv(x, y) ==
  IF ~IsZero(y) THEN Div(x, y)
  ELSE IF Sign(x) > 0 THEN PosInf
  ELSE IF Sign(x) < 0 THEN NegInf
  ELSE NaN

(* Angles.  An angle in radians is a pair <<p, q>> standing for p*PI + q,  *)
(* p and q numbers; a non-finite angle has the non-finite value as p.      *)
Angle(p, q) == <<p, q>>
ZeroAngle == Angle(Zero, Zero)
IsFiniteAngle(a) == IsFinite(a[1]) /\ IsFinite(a[2])
NaNAngle == Angle(NaN, Zero)
\* the number x (radians) as an angle
AngOfNum(x) == IF IsFinite(x) THEN Angle(Zero, x) ELSE Angle(x, Zero)
\* k * PI, k a finite number
PiTimes(k) == Angle(k, Zero)
AngAdd(a, b) ==
  IF IsFiniteAngle(a) /\ IsFiniteAngle(b)
  THEN Angle(Add(a[1], b[1]), Add(a[2], b[2]))
  ELSE IF IsFiniteAngle(b) THEN a
  ELSE IF IsFiniteAngle(a) THEN b
  ELSE IF a = b THEN a ELSE NaNAngle
AngNeg(a) ==
  IF IsFiniteAngle(a) THEN Angle(Neg(a[1]), Neg(a[2]))
  ELSE IF a[1] = PosInf THEN Angle(NegInf, Zero)
  ELSE IF a[1] = NegInf THEN Angle(PosInf, Zero)
  ELSE a
AngSub(a, b) == AngAdd(a, AngNeg(b))
\* the angle a times the finite number k
AngScale(a, k) ==
  IF IsFiniteAngle(a) THEN Angle(Mul(a[1], k), Mul(a[2], k))
  ELSE IF a[1] = NaN \/ IsZero(k) THEN NaNAngle
  ELSE IF Sign(k) > 0 THEN a ELSE AngNeg(a)

\* PI < x, for a number x: decided by rational bounds of PI that are
\* consecutive convergents (3 < 22/7, 333/106 < 355/113, 103993/33102 <
\* 104348/33215); no x of the model lies between the last two
PiLessThan(x) ==
  IF Le(Rat(22, 7), x) THEN TRUE
  ELSE IF Le(x, Num(3)) THEN FALSE
  ELSE IF Le(Rat(355, 113), x) THEN TRUE
  ELSE IF Le(x, Rat(333, 106)) THEN FALSE
  ELSE Le(Rat(104348, 33215), x)

\* sign of the finite angle p*PI + q
AngSign(a) ==
  IF IsZero(a[1]) THEN Sign(a[2])
  ELSE LET x == Neg(Div(a[2], a[1]))   \* p*PI + q > 0  iff  PI > x (p > 0)
       IN  IF Sign(a[1]) > 0
           THEN (IF PiLessThan(x) THEN 0 - 1 ELSE 1)
           ELSE (IF PiLessThan(x) THEN 1 ELSE 0 - 1)

(* Points.  A point is the record [x, y, r, a] standing for                *)
(* (x + r*cos(a), y + r*sin(a)): r = 0 for a point given by its            *)
(* coordinates.  cos and sin are not evaluated.                            *)
Point(x, y) == [x |-> x, y |-> y, r |-> Zero, a |-> ZeroAngle]
\* an optional point that is absent
UndefinedPoint == Point(Undefined, Undefined)

\* Calculate point on circle at given angle
pointOnCircle(center, radius, angle) ==
  [x |-> center.x, y |-> center.y, r |-> radius, a |-> angle]

----------------------------------------------------------------------------
(* SVG path builder.  A path string is modelled by the sequence of its     *)
(* commands, which join(' ') separates by spaces.                          *)

\* the point as serialized: each coordinate is round(.., 2); the rounding is
\* computed for a point given by its coordinates and left implied for a point
\* on a circle
roundPoint(p) ==
  IF p.r = Zero /\ IsFiniteAngle(p.a)
  THEN Point(round(p.x, 2), round(p.y, 2))
  ELSE p

moveTo(commands, p) == Append(commands, [op |-> "M", p |-> roundPoint(p)])
lineTo(commands, p) == Append(commands, [op |-> "L", p |-> roundPoint(p)])
arcTo(commands, radius, endPoint, largeArc, sweep) ==
  Append(commands,
         [op |-> "A", rx |-> round(radius, 2), ry |-> round(radius, 2),
          xAxisRotation |-> 0,
          largeArcFlag |-> IF largeArc THEN 1 ELSE 0,
          sweepFlag |-> IF sweep THEN 1 ELSE 0,
          p |-> roundPoint(endPoint)])
closePath(commands) == Append(commands, [op |-> "Z"])
build(commands) == commands
\* a reset that leaves the command list as it is
reset_KeepsCommands(commands) == commands
\* Reset the builder: this.commands = []
reset(commands) == <<>>

\* Generate SVG path d attribute for a full circle: two semicircles
circleToPath(center, radius) ==
  LET top == Point(center.x, Sub(center.y, radius))
      bottom == Point(center.x, Add(center.y, radius))
  IN  build(closePath(arcTo(arcTo(moveTo(<<>>, top), radius, bottom, TRUE, TRUE),
                            radius, top, TRUE, TRUE)))

----------------------------------------------------------------------------
(* Ring spacing calculation algorithms *)

\* Sum of golden ratio series: 1 + PHI + PHI^2 + ... + PHI^(n-1)
goldenRatioSum(n) ==
  IF n <= 0 THEN Zero ELSE Div(Sub(pow(PHI, n), One), Sub(PHI, One))

\* calculateShrinkageRadii's loop with the bound test written < 0
RECURSIVE ShrinkageRadiiLoop_EmitsZero(_, _, _, _, _, _)
ShrinkageRadiiLoop_EmitsZero(radii, currentRadius, currentGap, multiplier, i, ringCount) ==
  IF i >= ringCount THEN radii
  ELSE LET r == Sub(currentRadius, currentGap)
       IN  IF Lt(r, Zero) THEN radii
           ELSE ShrinkageRadiiLoop_EmitsZero(Append(radii, r), r,
                  Mul(currentGap, multiplier), multiplier, i + 1, ringCount)

\* the loop of calculateShrinkageRadii, entered at index i
RECURSIVE ShrinkageRadiiLoop(_, _, _, _, _, _)
ShrinkageRadiiLoop(radii, currentRadius, currentGap, multiplier, i, ringCount) ==
  IF i >= ringCount THEN radii
  ELSE LET r == Sub(currentRadius, currentGap)
       IN  IF Le(r, Zero) THEN radii
           ELSE ShrinkageRadiiLoop(Append(radii, r), r, Mul(currentGap, multiplier),
                                   multiplier, i + 1, ringCount)

calculateShrinkageRadii(outerRadius, ringCount, outerGap, shrinkage) ==
  IF ringCount <= 0 THEN <<>>
  ELSE IF ringCount = 1 THEN <<outerRadius>>
  ELSE ShrinkageRadiiLoop(<<outerRadius>>, outerRadius, outerGap,
                          Sub(One, shrinkage), 1, ringCount)

\* the goldenRatio loop of calculateRadii, entered at index i
RECURSIVE GoldenRatioLoop(_, _, _, _, _)
GoldenRatioLoop(radii, currentRadius, unitSize, i, ringCount) ==
  IF i >= ringCount THEN radii
  ELSE LET gap == Mul(unitSize, pow(PHI, ringCount - 1 - i))
           r == Sub(currentRadius, gap)
       IN  GoldenRatioLoop(Append(radii, r), r, unitSize, i + 1, ringCount)

\* the uniform case of calculateRadii
UniformRadii(outerRadius, ringCount, innerOpt) ==
  LET innerRadius == OrDefault(innerOpt, Mul(outerRadius, Rat(1, 10)))
      range == Sub(outerRadius, innerRadius)
  IN  [k \in 1..ringCount |->
         LET t == Rat(k - 1, ringCount - 1)
         IN  Sub(outerRadius, Mul(range, t))]

\* the graduated case of calculateRadii
GraduatedRadii(outerRadius, ringCount, innerOpt) ==
  LET innerRadius == OrDefault(innerOpt, Mul(outerRadius, Rat(1, 10)))
      range == Sub(outerRadius, innerRadius)
  IN  [k \in 1..ringCount |->
         LET t == Rat(k - 1, ringCount - 1)
             easedT == Mul(t, t)
         IN  Sub(outerRadius, Mul(range, easedT))]

\* the goldenRatio case with its loop started at 0: one ring too many
GoldenRatioRadii_ExtraRing(outerRadius, ringCount, innerOpt) ==
  LET innerRadius == OrDefault(innerOpt, Mul(outerRadius, Rat(1, 10)))
      range == Sub(outerRadius, innerRadius)
      totalParts == goldenRatioSum(ringCount - 1)
      unitSize == Div(range, totalParts)
  IN  GoldenRatioLoop(<<outerRadius>>, outerRadius, unitSize, 0, ringCount)

\* the goldenRatio case normalised by the series of ringCount terms
GoldenRatioRadii_WrongSum(outerRadius, ringCount, innerOpt) ==
  LET innerRadius == OrDefault(innerOpt, Mul(outerRadius, Rat(1, 10)))
      range == Sub(outerRadius, innerRadius)
      totalParts == goldenRatioSum(ringCount)
      unitSize == Div(range, totalParts)
  IN  GoldenRatioLoop(<<outerRadius>>, outerRadius, unitSize, 1, ringCount)

\* the goldenRatio case of calculateRadii
GoldenRatioRadii(outerRadius, ringCount, innerOpt) ==
  LET innerRadius == OrDefault(innerOpt, Mul(outerRadius, Rat(1, 10)))
      range == Sub(outerRadius, innerRadius)
      totalParts == goldenRatioSum(ringCount - 1)
      unitSize == Div(range, totalParts)
  IN  GoldenRatioLoop(<<outerRadius>>, outerRadius, unitSize, 1, ringCount)

\* Calculate radii for all rings based on spacing mode; options is the
\* record [innerRadius, outerGap, shrinkage], a field Undefined when absent
calculateRadii(outerRadius, ringCount, mode, options) ==
  IF ringCount <= 0 THEN <<>>
  ELSE IF ringCount = 1 THEN <<outerRadius>>
  ELSE CASE mode = "shrinkage" ->
              calculateShrinkageRadii(outerRadius, ringCount,
                                      OrDefault(options.outerGap, Num(18)),
                                      OrDefault(options.shrinkage, Rat(5, 100)))
         [] mode = "uniform" -> UniformRadii(outerRadius, ringCount, options.innerRadius)
         [] mode = "graduated" -> GraduatedRadii(outerRadius, ringCount, options.innerRadius)
         [] mode = "goldenRatio" -> GoldenRatioRadii(outerRadius, ringCount, options.innerRadius)
         [] OTHER -> <<>>

----------------------------------------------------------------------------
(* Ring pattern generator *)

DEFAULT_CONFIG ==
  [outerRadius |-> Num(360), innerRadius |-> Num(36), ringCount |-> 10,
   spacingMode |-> "shrinkage", outerGap |-> Num(18), shrinkage |-> Rat(5, 100),
   cutCount |-> 8, gridDivisions |-> 16, staggerOffset |-> 1, cutWidth |-> Num(8),
   showOuterBoundary |-> TRUE, center |-> UndefinedPoint]

\* a path that is undefined (no outer boundary)
UndefinedPath == <<[op |-> "undefined"]>>

\* Calculate rotation angle for a ring based on grid alignment and stagger
calculateStaggeredRotation(ringIndex, gridDivisions, staggerOffset) ==
  LET gridPosition == IF ringIndex % 2 = 0 THEN 0 ELSE staggerOffset
  IN  IF gridDivisions # 0
      THEN PiTimes(Rat(2 * gridPosition, gridDivisions))
      \* gridAngle is Infinity
      ELSE IF gridPosition = 0 THEN NaNAngle
      ELSE IF gridPosition > 0 THEN Angle(PosInf, Zero)
      ELSE Angle(NegInf, Zero)

\* Generate a single arc SVG path
generateArc(center, radius, startAngle, endAngle) ==
  LET start == pointOnCircle(center, radius, startAngle)
      end == pointOnCircle(center, radius, endAngle)
      sweepAngle == AngSub(endAngle, startAngle)
      largeArc == /\ IsFiniteAngle(sweepAngle)
                  /\ AngSign(AngSub(sweepAngle, PiTimes(One))) > 0
  IN  build(arcTo(moveTo(<<>>, start), radius, end, largeArc, TRUE))

\* the arcs i, i+1, ..., cutCount-1 of generateRingWithCuts joined by spaces
RECURSIVE RingArcs(_, _, _, _, _, _, _, _)
RingArcs(center, radius, cutCount, rotation, segmentAngle, cutAngle, arcAngle, i) ==
  IF i >= cutCount THEN <<>>
  ELSE LET startAngle == AngAdd(AngAdd(rotation, AngScale(segmentAngle, Num(i))),
                                AngScale(cutAngle, Rat(1, 2)))
           endAngle == AngAdd(startAngle, arcAngle)
       IN  generateArc(center, radius, startAngle, endAngle)
             \o RingArcs(center, radius, cutCount, rotation, segmentAngle,
                         cutAngle, arcAngle, i + 1)

\* the ring with its cuts and no test of the arc angle
generateRingWithCuts_NoArcAngleTest(center, radius, cutCount, cutWidth, rotation) ==
  IF cutCount <= 0 THEN circleToPath(center, radius)
  ELSE LET cutAngle == AngOfNum(ExtDiv(cutWidth, radius))
           segmentAngle == PiTimes(Rat(2, cutCount))
           arcAngle == AngSub(segmentAngle, cutAngle)
       IN  RingArcs(center, radius, cutCount, rotation, segmentAngle,
                    cutAngle, arcAngle, 0)

\* Generate a ring with evenly-spaced cuts: N arcs separated by cuts
generateRingWithCuts(center, radius, cutCount, cutWidth, rotation) ==
  IF cutCount <= 0 THEN circleToPath(center, radius)
  ELSE LET cutAngle == AngOfNum(ExtDiv(cutWidth, radius))
           segmentAngle == PiTimes(Rat(2, cutCount))
           arcAngle == AngSub(segmentAngle, cutAngle)
           \* arcAngle <= 0: false for NaN
           tooSmall == IF IsFiniteAngle(arcAngle) THEN AngSign(arcAngle) <= 0
                       ELSE arcAngle[1] = NegInf
       IN  IF tooSmall THEN circleToPath(center, radius)
           ELSE RingArcs(center, radius, cutCount, rotation, segmentAngle,
                         cutAngle, arcAngle, 0)

\* { ...DEFAULT_CONFIG, ...config }: a field config does not have keeps its default
MergeRingConfig(config) ==
  [f \in DOMAIN DEFAULT_CONFIG |->
     IF f \in DOMAIN config THEN config[f] ELSE DEFAULT_CONFIG[f]]

\* the ring built with no exemption of the outermost ring
GeneratedRing_OuterCutToo(cfg, center, radius, index) ==
  LET rotation == calculateStaggeredRotation(index, cfg.gridDivisions, cfg.staggerOffset)
      pathData == IF cfg.cutCount <= 0
                  THEN circleToPath(center, radius)
                  ELSE generateRingWithCuts(center, radius, cfg.cutCount,
                                            cfg.cutWidth, rotation)
  IN  [index |-> index, radius |-> radius, rotation |-> rotation, pathData |-> pathData]

\* the ring built for radii[index + 1] (index is 0-based)
GeneratedRing(cfg, center, radius, index) ==
  LET rotation == calculateStaggeredRotation(index, cfg.gridDivisions, cfg.staggerOffset)
      pathData == IF index = 0 \/ cfg.cutCount <= 0
                  THEN circleToPath(center, radius)
                  ELSE generateRingWithCuts(center, radius, cfg.cutCount,
                                            cfg.cutWidth, rotation)
  IN  [index |-> index, radius |-> radius, rotation |-> rotation, pathData |-> pathData]

\* Generate a complete ring pattern from configuration
generateRingPattern(config) ==
  LET cfg == MergeRingConfig(config)
      center == IF cfg.center = UndefinedPoint
                THEN Point(cfg.outerRadius, cfg.outerRadius)
                ELSE cfg.center
      radii == calculateRadii(cfg.outerRadius, cfg.ringCount, cfg.spacingMode,
                 [innerRadius |-> cfg.innerRadius, outerGap |-> cfg.outerGap,
                  shrinkage |-> cfg.shrinkage])
      rings == [k \in 1..Len(radii) |-> GeneratedRing(cfg, center, radii[k], k - 1)]
      outerBoundary == IF cfg.showOuterBoundary
                       THEN circleToPath(center, cfg.outerRadius)
                       ELSE UndefinedPath
  IN  [rings |-> rings, outerBoundary |-> outerBoundary, center |-> center,
       radii |-> radii]

----------------------------------------------------------------------------
(* Square spacing calculation algorithms *)

RECURSIVE ShrinkageSizesLoop(_, _, _, _, _, _)
ShrinkageSizesLoop(sizes, currentSize, currentGap, multiplier, i, squareCount) ==
  IF i >= squareCount THEN sizes
  ELSE LET s == Sub(currentSize, currentGap)
       IN  IF Le(s, Zero) THEN sizes
           ELSE ShrinkageSizesLoop(Append(sizes, s), s, Mul(currentGap, multiplier),
                                   multiplier, i + 1, squareCount)

calculateShrinkageSizes(outerSize, squareCount, outerGap, shrinkage) ==
  IF squareCount <= 0 THEN <<>>
  ELSE IF squareCount = 1 THEN <<outerSize>>
  ELSE ShrinkageSizesLoop(<<outerSize>>, outerSize, outerGap,
                          Sub(One, shrinkage), 1, squareCount)

\* the uniform case interpolating from inner up to outer
UniformSizes_Ascending(outerSize, squareCount, innerOpt) ==
  LET innerSize == OrDefault(innerOpt, Mul(outerSize, Rat(1, 10)))
      range == Sub(outerSize, innerSize)
  IN  [k \in 1..squareCount |->
         LET t == Rat(k - 1, squareCount - 1)
         IN  Add(innerSize, Mul(range, t))]

UniformSizes(outerSize, squareCount, innerOpt) ==
  LET innerSize == OrDefault(innerOpt, Mul(outerSize, Rat(1, 10)))
      range == Sub(outerSize, innerSize)
  IN  [k \in 1..squareCount |->
         LET t == Rat(k - 1, squareCount - 1)
         IN  Sub(outerSize, Mul(range, t))]

GraduatedSizes(outerSize, squareCount, innerOpt) ==
  LET innerSize == OrDefault(innerOpt, Mul(outerSize, Rat(1, 10)))
      range == Sub(outerSize, innerSize)
  IN  [k \in 1..squareCount |->
         LET t == Rat(k - 1, squareCount - 1)
             easedT == Mul(t, t)
         IN  Sub(outerSize, Mul(range, easedT))]

\* options is the record [innerSize, outerGap, shrinkage]
calculateSquareSizes(outerSize, squareCount, mode, options) ==
  IF squareCount <= 0 THEN <<>>
  ELSE IF squareCount = 1 THEN <<outerSize>>
  ELSE CASE mode = "shrinkage" ->
              calculateShrinkageSizes(outerSize, squareCount,
                                      OrDefault(options.outerGap, Num(24)),
                                      OrDefault(options.shrinkage, Rat(5, 100)))
         [] mode = "uniform" -> UniformSizes(outerSize, squareCount, options.innerSize)
         [] mode = "graduated" -> GraduatedSizes(outerSize, squareCount, options.innerSize)
         [] OTHER -> <<>>

----------------------------------------------------------------------------
(* Polygon spacing calculation algorithms *)

RECURSIVE PolygonShrinkageLoop(_, _, _, _, _, _)
PolygonShrinkageLoop(radii, currentRadius, currentGap, multiplier, i, polygonCount) ==
  IF i >= polygonCount THEN radii
  ELSE LET r == Sub(currentRadius, currentGap)
       IN  IF Le(r, Zero) THEN radii
           ELSE PolygonShrinkageLoop(Append(radii, r), r, Mul(currentGap, multiplier),
                                     multiplier, i + 1, polygonCount)

\* calculateShrinkageRadii of the polygon package
polygonCalculateShrinkageRadii(outerRadius, polygonCount, outerGap, shrinkage) ==
  IF polygonCount <= 0 THEN <<>>
  ELSE IF polygonCount = 1 THEN <<outerRadius>>
  ELSE PolygonShrinkageLoop(<<outerRadius>>, outerRadius, outerGap,
                            Sub(One, shrinkage), 1, polygonCount)

UniformPolygonRadii(outerRadius, polygonCount, innerOpt) ==
  LET innerRadius == OrDefault(innerOpt, Mul(outerRadius, Rat(1, 10)))
      range == Sub(outerRadius, innerRadius)
  IN  [k \in 1..polygonCount |->
         LET t == Rat(k - 1, polygonCount - 1)
         IN  Sub(outerRadius, Mul(range, t))]

GraduatedPolygonRadii(outerRadius, polygonCount, innerOpt) ==
  LET innerRadius == OrDefault(innerOpt, Mul(outerRadius, Rat(1, 10)))
      range == Sub(outerRadius, innerRadius)
  IN  [k \in 1..polygonCount |->
         LET t == Rat(k - 1, polygonCount - 1)
             easedT == Mul(t, t)
         IN  Sub(outerRadius, Mul(range, easedT))]

\* calculatePolygonRadii with the empty case written polygonCount <= 1
calculatePolygonRadii_SingleEmpty(outerRadius, polygonCount, mode, options) ==
  IF polygonCount <= 1 THEN <<>>
  ELSE CASE mode = "shrinkage" ->
              polygonCalculateShrinkageRadii(outerRadius, polygonCount,
                                             OrDefault(options.outerGap, Num(24)),
                                             OrDefault(options.shrinkage, Rat(5, 100)))
         [] mode = "uniform" -> UniformPolygonRadii(outerRadius, polygonCount, options.innerRadius)
         [] mode = "graduated" -> GraduatedPolygonRadii(outerRadius, polygonCount, options.innerRadius)
         [] OTHER -> <<>>

\* options is the record [innerRadius, outerGap, shrinkage]
calculatePolygonRadii(outerRadius, polygonCount, mode, options) ==
  IF polygonCount <= 0 THEN <<>>
  ELSE IF polygonCount = 1 THEN <<outerRadius>>
  ELSE CASE mode = "shrinkage" ->
              polygonCalculateShrinkageRadii(outerRadius, polygonCount,
                                             OrDefault(options.outerGap, Num(24)),
                                             OrDefault(options.shrinkage, Rat(5, 100)))
         [] mode = "uniform" -> UniformPolygonRadii(outerRadius, polygonCount, options.innerRadius)
         [] mode = "graduated" -> GraduatedPolygonRadii(outerRadius, polygonCount, options.innerRadius)
         [] OTHER -> <<>>

----------------------------------------------------------------------------
(* Pattern store of the web application: the pattern type on display, one  *)
(* configuration per family, the export settings and the view.             *)

DEFAULT_SQUARE_CONFIG ==
  [outerSize |-> Num(360), innerSize |-> Num(36), squareCount |-> 10,
   spacingMode |-> "shrinkage", outerGap |-> Num(24), shrinkage |-> Rat(5, 100),
   rotation |-> 0, alternating |-> TRUE, notchesPerSide |-> 0,
   notchWidth |-> Num(8), showOuterBoundary |-> TRUE, center |-> UndefinedPoint]

DEFAULT_POLYGON_CONFIG ==
  [sides |-> 6, outerRadius |-> Num(360), innerRadius |-> Num(36),
   polygonCount |-> 10, spacingMode |-> "shrinkage", outerGap |-> Num(24),
   shrinkage |-> Rat(5, 100), rotation |-> 0, bridgeCount |-> 0,
   bridgeWidth |-> Num(8), showOuterBoundary |-> TRUE, center |-> UndefinedPoint]

DEFAULT_SPIRAL_CONFIG ==
  [armCount |-> 4, outerRadius |-> Num(360), innerRadius |-> Num(10),
   turns |-> Num(3), spiralType |-> "logarithmic", growthFactor |-> Rat(2, 10),
   rotation |-> 0, strokeWidth |-> Num(1), showOuterBoundary |-> TRUE,
   center |-> UndefinedPoint]

PatternTypes == {"rings", "squares", "polygons", "spirals"}

\* the state the store is created with
InitialStore ==
  [patternType |-> "rings",
   ringConfig |-> DEFAULT_CONFIG,
   squareConfig |-> DEFAULT_SQUARE_CONFIG,
   polygonConfig |-> DEFAULT_POLYGON_CONFIG,
   spiralConfig |-> DEFAULT_SPIRAL_CONFIG,
   kerfAllowance |-> Zero,
   exportUnit |-> "inches",
   zoom |-> One,
   panX |-> Zero,
   panY |-> Zero]

----------------------------------------------------------------------------
(* The engine holds no state across calls and is synchronous: the state of *)
(* the model is the call being served (fn = "none" when there is none),    *)
(* its arguments and what it returns: ret holds a returned sequence (of    *)
(* extents, of path commands) or angle, pattern a returned pattern record. *)
(* A call is made when no other is being served; Return hands the result   *)
(* to the caller.                                                          *)

\* The application around the engine holds state: commands is the command
\* list of a path builder, store the state of the pattern store of the web
\* application.  history is the log of the calls already made on the builder
\* or of the generators, kept to state what a later call has to return.
VARIABLES fn, args, ret, pattern, commands, store, history

vars == <<fn, args, ret, pattern, commands, store, history>>

\* largest element count a call is made with
MaxCount == 4

Counts == (0 - 1)..MaxCount
OuterValues == {Num(0 - 50), Num(0), Num(100)}
InnerValues == {Undefined, Num(0), Num(10), Num(100), Num(150)}
GapValues == {Undefined, Num(0 - 10), Num(0), Num(50)}
ShrinkageValues == {Undefined, Num(0), Rat(1, 10), Rat(1, 2), Num(1), Rat(3, 2)}

RingModes == {"uniform", "shrinkage", "graduated", "goldenRatio"}
SquareModes == {"uniform", "shrinkage", "graduated"}
PolygonModes == {"uniform", "shrinkage", "graduated"}

NoArgs == <<>>
NoResult == <<>>
NoPattern == [none |-> TRUE]

Init ==
  /\ fn = "none"
  /\ args = NoArgs
  /\ ret = NoResult
  /\ pattern = NoPattern
  /\ commands = <<>>
  /\ store = InitialStore
  /\ history = <<>>

\* the caller takes the result: the engine keeps nothing of the call
Return ==
  /\ fn # "none"
  /\ fn' = "none"
  /\ args' = NoArgs
  /\ ret' = NoResult
  /\ pattern' = NoPattern
  /\ UNCHANGED <<commands, store, history>>

SpacingArgs(outer, count, mode, inner, gap, shrink) ==
  [outer |-> outer, count |-> count, mode |-> mode,
   inner |-> inner, outerGap |-> gap, shrinkage |-> shrink]

CallCalculateRadii ==
  /\ fn = "none"
  /\ \E outer \in OuterValues, count \in Counts, mode \in RingModes,
        inner \in InnerValues, gap \in GapValues, shrink \in ShrinkageValues :
       /\ fn' = "calculateRadii"
       /\ args' = SpacingArgs(outer, count, mode, inner, gap, shrink)
       /\ ret' = calculateRadii(outer, count, mode,
                   [innerRadius |-> inner, outerGap |-> gap, shrinkage |-> shrink])
  /\ UNCHANGED pattern
  /\ UNCHANGED <<commands, store, history>>

CallCalculateSquareSizes ==
  /\ fn = "none"
  /\ \E outer \in OuterValues, count \in Counts, mode \in SquareModes,
        inner \in InnerValues, gap \in GapValues, shrink \in ShrinkageValues :
       /\ fn' = "calculateSquareSizes"
       /\ args' = SpacingArgs(outer, count, mode, inner, gap, shrink)
       /\ ret' = calculateSquareSizes(outer, count, mode,
                   [innerSize |-> inner, outerGap |-> gap, shrinkage |-> shrink])
  /\ UNCHANGED pattern
  /\ UNCHANGED <<commands, store, history>>

CallCalculatePolygonRadii ==
  /\ fn = "none"
  /\ \E outer \in OuterValues, count \in Counts, mode \in PolygonModes,
        inner \in InnerValues, gap \in GapValues, shrink \in ShrinkageValues :
       /\ fn' = "calculatePolygonRadii"
       /\ args' = SpacingArgs(outer, count, mode, inner, gap, shrink)
       /\ ret' = calculatePolygonRadii(outer, count, mode,
                   [innerRadius |-> inner, outerGap |-> gap, shrinkage |-> shrink])
  /\ UNCHANGED pattern
  /\ UNCHANGED <<commands, store, history>>

\* the exported shrinkage functions called directly: outerGap and shrinkage
\* are required parameters there
CallCalculateShrinkageRadii ==
  /\ fn = "none"
  /\ \E outer \in OuterValues, count \in Counts,
        gap \in GapValues \ {Undefined}, shrink \in ShrinkageValues \ {Undefined} :
       /\ fn' = "calculateShrinkageRadii"
       /\ args' = SpacingArgs(outer, count, "shrinkage", Undefined, gap, shrink)
       /\ ret' = calculateShrinkageRadii(outer, count, gap, shrink)
  /\ UNCHANGED pattern
  /\ UNCHANGED <<commands, store, history>>

CallCalculateShrinkageSizes ==
  /\ fn = "none"
  /\ \E outer \in OuterValues, count \in Counts,
        gap \in GapValues \ {Undefined}, shrink \in ShrinkageValues \ {Undefined} :
       /\ fn' = "calculateShrinkageSizes"
       /\ args' = SpacingArgs(outer, count, "shrinkage", Undefined, gap, shrink)
       /\ ret' = calculateShrinkageSizes(outer, count, gap, shrink)
  /\ UNCHANGED pattern
  /\ UNCHANGED <<commands, store, history>>

CallPolygonCalculateShrinkageRadii ==
  /\ fn = "none"
  /\ \E outer \in OuterValues, count \in Counts,
        gap \in GapValues \ {Undefined}, shrink \in ShrinkageValues \ {Undefined} :
       /\ fn' = "polygonCalculateShrinkageRadii"
       /\ args' = SpacingArgs(outer, count, "shrinkage", Undefined, gap, shrink)
       /\ ret' = polygonCalculateShrinkageRadii(outer, count, gap, shrink)
  /\ UNCHANGED pattern
  /\ UNCHANGED <<commands, store, history>>

Next ==
  \/ CallCalculateRadii
  \/ CallCalculateSquareSizes
  \/ CallCalculatePolygonRadii
  \/ CallCalculateShrinkageRadii
  \/ CallCalculateShrinkageSizes
  \/ CallPolygonCalculateShrinkageRadii
  \/ Return

Spec == Init /\ [][Next]_vars

----------------------------------------------------------------------------
(* Properties of the spacing engine *)

IsSpacingCall == fn \in {"calculateRadii", "calculateSquareSizes", "calculatePolygonRadii"}
IsShrinkageCall ==
  fn \in {"calculateShrinkageRadii", "calculateShrinkageSizes",
          "polygonCalculateShrinkageRadii"}
InShrinkageMode == IsShrinkageCall \/ (IsSpacingCall /\ args.mode = "shrinkage")

\* the value the code computes with for an option: the default replaces an
\* absent option and a zero one
InEffect(x, dflt) == IF x = Undefined \/ x = Zero THEN dflt ELSE x
DefaultGap == IF fn = "calculateRadii" THEN Num(18) ELSE Num(24)
GapInEffect == IF IsShrinkageCall THEN args.outerGap ELSE InEffect(args.outerGap, DefaultGap)
ShrinkageInEffect ==
  IF IsShrinkageCall THEN args.shrinkage ELSE InEffect(args.shrinkage, Rat(1, 20))
InnerInEffect == InEffect(args.inner, Mul(args.outer, Rat(1, 10)))
\* the inner extent as supplied: the default only when none is supplied
InnerSupplied == IF args.inner = Undefined THEN Mul(args.outer, Rat(1, 10)) ELSE args.inner

StrictlyDecreasing(seq) == \A i \in 2..Len(seq) : Lt(seq[i], seq[i - 1])
\* the gap between element i-1 and element i (1-based), 2 <= i <= Len(seq)
GapAt(seq, i) == Sub(seq[i - 1], seq[i])

\* C1 as stated: in every spacing mode of calculateRadii, calculateSquareSizes
\* and calculatePolygonRadii, for every count >= 2 and every outer, inner,
\* outerGap and shrinkage, the result starts with outer and is strictly
\* decreasing.
C1_AnyParameters ==
  (IsSpacingCall /\ args.count >= 2) =>
    /\ Len(ret) >= 1
    /\ ret[1] = args.outer
    /\ StrictlyDecreasing(ret)

WellOrdered ==
  IF args.mode = "shrinkage"
  THEN Gt(GapInEffect, Zero) /\ Lt(ShrinkageInEffect, One)
  ELSE Lt(InnerInEffect, args.outer)

\* C1 amended: for count >= 2 the result starts with outer; it is strictly
\* decreasing when the inner extent in effect is below outer (uniform,
\* graduated, goldenRatio) or the outerGap in effect is positive and the
\* shrinkage in effect is below 1 (shrinkage).
C1_FirstIsOuterAndDecreasing ==
  (IsSpacingCall /\ args.count >= 2) =>
    /\ Len(ret) >= 1
    /\ ret[1] = args.outer
    /\ WellOrdered => StrictlyDecreasing(ret)

C1_Witness ==
  /\ IsSpacingCall
  /\ args.count >= 3
  /\ WellOrdered
  /\ Len(ret) >= 3
  /\ StrictlyDecreasing(ret)

\* C2 as stated: in shrinkage mode, for every outer and every count >= 1,
\* every extent of the result is strictly greater than 0.
C2_AllPositive ==
  (InShrinkageMode /\ args.count >= 1) =>
    \A i \in 1..Len(ret) : Gt(ret[i], Zero)

\* the gap the loop would subtract next after emitting n elements
NextGap(n) == Mul(GapInEffect, pow(Sub(One, ShrinkageInEffect), n - 1))

\* C2 amended: in shrinkage mode with count >= 1 the first extent is outer
\* itself, whatever its sign, and every later extent is strictly greater
\* than 0 (so all are when outer > 0); a result shorter than count stopped at
\* the first step whose extent would be <= 0.
C2_LaterExtentsPositive ==
  (InShrinkageMode /\ args.count >= 1) =>
    /\ Len(ret) >= 1
    /\ ret[1] = args.outer
    /\ \A i \in 2..Len(ret) : Gt(ret[i], Zero)
    /\ Gt(args.outer, Zero) => \A i \in 1..Len(ret) : Gt(ret[i], Zero)
    /\ Len(ret) < args.count => Le(Sub(ret[Len(ret)], NextGap(Len(ret))), Zero)

C2_Witness ==
  /\ InShrinkageMode
  /\ Gt(args.outer, Zero)
  /\ Len(ret) >= 2
  /\ Len(ret) < args.count

\* C3: in shrinkage mode with a configured outerGap > 0 and a configured
\* shrinkage s in [0, 1), shrinkage 0 included, the first gap equals outerGap
\* and every later gap equals the previous gap times (1 - s).
C3_GapsDecayByShrinkage ==
  (/\ IsSpacingCall
   /\ args.mode = "shrinkage"
   /\ args.outerGap # Undefined
   /\ Gt(args.outerGap, Zero)
   /\ args.shrinkage # Undefined
   /\ Le(Zero, args.shrinkage)
   /\ Lt(args.shrinkage, One)) =>
    /\ Len(ret) >= 2 => GapAt(ret, 2) = args.outerGap
    /\ \A i \in 3..Len(ret) :
         GapAt(ret, i) = Mul(GapAt(ret, i - 1), Sub(One, args.shrinkage))

\* C4: in every mode and family a count <= 0 yields the empty sequence and
\* count = 1 yields the one-element sequence <<outer>>.
C4_EmptyAndSingle ==
  (IsSpacingCall \/ IsShrinkageCall) =>
    /\ args.count <= 0 => ret = <<>>
    /\ args.count = 1 => ret = <<args.outer>>

C4_Witness ==
  /\ fn = "calculatePolygonRadii"
  /\ args.mode = "graduated"
  /\ args.count = 1
  /\ ret = <<args.outer>>

\* C5: for every count >= 0 the result has at most count elements, and
\* uniform, graduated and goldenRatio return exactly count elements: only
\* shrinkage can return fewer.
C5_LengthAtMostCount ==
  ((IsSpacingCall \/ IsShrinkageCall) /\ args.count >= 0) =>
    /\ Len(ret) <= args.count
    /\ args.mode # "shrinkage" => Len(ret) = args.count

C5_Witness ==
  /\ fn = "calculateRadii"
  /\ args.mode = "shrinkage"
  /\ Len(ret) < args.count

\* C6: in uniform mode with count >= 2, element i (0-based) is
\* outer - (outer - inner) * i / (count - 1), inner being the supplied inner
\* extent, 0 included, and outer * 0.1 only when none is supplied.
C6_UniformInterpolatesToSuppliedInner ==
  (IsSpacingCall /\ args.mode = "uniform" /\ args.count >= 2) =>
    /\ Len(ret) = args.count
    /\ \A k \in 1..Len(ret) :
         ret[k] = Sub(args.outer,
                      Mul(Sub(args.outer, InnerSupplied), Rat(k - 1, args.count - 1)))

\* C7: in graduated mode with count >= 3 and outer > inner the gaps do not
\* grow from the outermost pair to the innermost pair.
C7_GraduatedGapsShrinkInward ==
  (/\ IsSpacingCall
   /\ args.mode = "graduated"
   /\ args.count >= 3
   /\ Gt(args.outer, InnerInEffect)) =>
    \A i \in 3..Len(ret) : Le(GapAt(ret, i), GapAt(ret, i - 1))

\* 1 + PHI + ... + PHI^k, term by term
RECURSIVE PhiSeries(_)
PhiSeries(k) == IF k < 0 THEN Zero ELSE Add(pow(PHI, k), PhiSeries(k - 1))

RECURSIVE SumOfGaps(_, _)
SumOfGaps(seq, i) == IF i < 2 THEN Zero ELSE Add(GapAt(seq, i), SumOfGaps(seq, i - 1))

\* C8: in goldenRatio mode with count >= 2 the count-1 gaps sum to
\* outer - inner, the last radius is inner, the gap of step i is
\* unit * PHI^(count-1-i) with unit = (outer - inner) / (1 + PHI + ... +
\* PHI^(count-2)), and each gap is PHI times the gap inside it.  inner is the
\* inner radius in effect (the supplied one; outer * 0.1 when it is absent or 0).
C8_GoldenRatioGaps ==
  (fn = "calculateRadii" /\ args.mode = "goldenRatio" /\ args.count >= 2) =>
    LET n == args.count
        unit == Div(Sub(args.outer, InnerInEffect), PhiSeries(n - 2))
    IN  /\ Len(ret) = n
        /\ SumOfGaps(ret, n) = Sub(args.outer, InnerInEffect)
        /\ ret[n] = InnerInEffect
        /\ \A i \in 1..(n - 1) : GapAt(ret, i + 1) = Mul(unit, pow(PHI, n - 1 - i))
        /\ \A i \in 1..(n - 2) : GapAt(ret, i + 1) = Mul(PHI, GapAt(ret, i + 2))

C8_Witness ==
  /\ fn = "calculateRadii"
  /\ args.mode = "goldenRatio"
  /\ args.count >= 3
  /\ Gt(args.outer, InnerInEffect)
  /\ ret[args.count] = InnerInEffect

----------------------------------------------------------------------------
(* Calls of the ring generator *)

\* largest ringCount a pattern is generated with
MaxRings == 3
\* largest cutCount generateRingWithCuts is called with
MaxCuts == 4

\* the values the fields of a configuration are drawn from
RingConfigValues ==
  [outerRadius : {Num(0), Num(100)},
   innerRadius : {Num(0), Num(10)},
   ringCount : 0..MaxRings,
   spacingMode : RingModes,
   outerGap : {Num(50)},
   shrinkage : {Rat(1, 2)},
   cutCount : {0, 2},
   gridDivisions : {0, 4},
   staggerOffset : {1},
   cutWidth : {Num(5), Num(400)},
   showOuterBoundary : BOOLEAN,
   center : {Point(Num(0), Num(0))}]

\* the configuration without its center
WithoutCenter(config) == [f \in (DOMAIN config) \ {"center"} |-> config[f]]

\* a caller supplies every field, every field but the center, overrides
\* ringCount and cutCount alone (at most three rings: with the default
\* shrinkage 1/20 the exact radii of a fourth exceed 32-bit integers), or
\* overrides the cuts and their stagger
CallGenerateRingPattern ==
  /\ fn = "none"
  /\ \E config \in
          RingConfigValues
            \cup {WithoutCenter(full) : full \in RingConfigValues}
            \cup [ringCount : 0..3, cutCount : {0, 2, 3}]
            \cup [outerRadius : {Num(100)}, innerRadius : {Num(10)},
                  spacingMode : {"uniform"}, ringCount : {MaxRings},
                  cutCount : {2, 4}, gridDivisions : {4}, staggerOffset : {1, 2}] :
       /\ fn' = "generateRingPattern"
       /\ args' = [config |-> config]
       /\ ret' = NoResult
       /\ pattern' = generateRingPattern(config)
  /\ UNCHANGED <<commands, store, history>>

CallGenerateRingWithCuts ==
  /\ fn = "none"
  /\ \E center \in {Point(Num(0), Num(0)), Point(Num(100), Num(100))},
        radius \in {Num(0 - 50), Num(0), Num(2), Num(50)},
        cutCount \in (0 - 1)..MaxCuts,
        cutWidth \in {Num(0), Num(5), Num(400)},
        rotation \in {ZeroAngle, PiTimes(Rat(1, 4))} :
       /\ fn' = "generateRingWithCuts"
       /\ args' = [center |-> center, radius |-> radius, cutCount |-> cutCount,
                   cutWidth |-> cutWidth, rotation |-> rotation]
       /\ ret' = generateRingWithCuts(center, radius, cutCount, cutWidth, rotation)
  /\ UNCHANGED pattern
  /\ UNCHANGED <<commands, store, history>>

CallCalculateStaggeredRotation ==
  /\ fn = "none"
  /\ \E ringIndex \in 0..MaxRings, gridDivisions \in {0 - 4, 0, 4, 16},
        staggerOffset \in (0 - 1)..2 :
       /\ fn' = "calculateStaggeredRotation"
       /\ args' = [ringIndex |-> ringIndex, gridDivisions |-> gridDivisions,
                   staggerOffset |-> staggerOffset]
       /\ ret' = calculateStaggeredRotation(ringIndex, gridDivisions, staggerOffset)
  /\ UNCHANGED pattern
  /\ UNCHANGED <<commands, store, history>>

RingNext ==
  \/ CallGenerateRingPattern
  \/ CallGenerateRingWithCuts
  \/ CallCalculateStaggeredRotation
  \/ Return

RingSpec == Init /\ [][RingNext]_vars

----------------------------------------------------------------------------
(* Properties of the ring generator *)

\* the commands of a path, by their letters
Ops(path) == [k \in 1..Len(path) |-> path[k].op]

\* the full circle of radius R around c, written out: M top, A to the
\* bottom, A back to the top, Z
FullCircle(c, R) ==
  LET top == Point(round(c.x, 2), round(Sub(c.y, R), 2))
      bottom == Point(round(c.x, 2), round(Add(c.y, R), 2))
      arc(to) == [op |-> "A", rx |-> round(R, 2), ry |-> round(R, 2),
                  xAxisRotation |-> 0, largeArcFlag |-> 1, sweepFlag |-> 1, p |-> to]
  IN  <<[op |-> "M", p |-> top], arc(bottom), arc(top), [op |-> "Z"]>>

ConfiguredOuterRadius ==
  IF "outerRadius" \in DOMAIN args.config
  THEN args.config.outerRadius ELSE DEFAULT_CONFIG.outerRadius

\* C9: in every pattern of generateRingPattern with at least one ring, the
\* ring of index 0 is the uncut full circle (one M, two arcs, Z) at the outer
\* radius, whatever cutCount, cutWidth, gridDivisions and staggerOffset are.
C9_OutermostRingSolid ==
  (fn = "generateRingPattern" /\ Len(pattern.rings) >= 1) =>
    /\ pattern.rings[1].index = 0
    /\ pattern.rings[1].radius = ConfiguredOuterRadius
    /\ Ops(pattern.rings[1].pathData) = <<"M", "A", "A", "Z">>
    /\ pattern.rings[1].pathData = FullCircle(pattern.center, ConfiguredOuterRadius)

\* a pattern with cuts: the outermost ring solid, the next one segmented
C9_Witness ==
  /\ fn = "generateRingPattern"
  /\ Len(pattern.rings) >= 2
  /\ pattern.rings[1].pathData = FullCircle(pattern.center, ConfiguredOuterRadius)
  /\ Ops(pattern.rings[2].pathData) = <<"M", "A", "M", "A">>

\* the arc angle 2*PI/cutCount - cutWidth/radius of a call with radius > 0
ArcAngleOfCall ==
  Angle(Rat(2, args.cutCount), Neg(Div(args.cutWidth, args.radius)))

\* C10: generateRingWithCuts with radius > 0 and cutCount >= 1 returns
\* exactly cutCount sub-paths, each an M followed by an A, when
\* 2*PI/cutCount - cutWidth/radius > 0, and the full circle of
\* circleToPath(center, radius) when that angle is <= 0; with cutCount <= 0 it
\* returns the full circle too.
C10_CutsOrFullCircle ==
  (fn = "generateRingWithCuts") =>
    /\ (Gt(args.radius, Zero) /\ args.cutCount >= 1 /\ AngSign(ArcAngleOfCall) > 0) =>
         /\ Len(ret) = 2 * args.cutCount
         /\ \A k \in 1..args.cutCount :
              ret[2 * k - 1].op = "M" /\ ret[2 * k].op = "A"
    /\ (Gt(args.radius, Zero) /\ args.cutCount >= 1 /\ AngSign(ArcAngleOfCall) <= 0) =>
         ret = FullCircle(args.center, args.radius)
    /\ args.cutCount <= 0 => ret = FullCircle(args.center, args.radius)

\* cuts too wide for the ring: three cuts of width 5 on a ring of radius 2
C10_Witness ==
  /\ fn = "generateRingWithCuts"
  /\ Gt(args.radius, Zero)
  /\ args.cutCount >= 1
  /\ Gt(args.cutWidth, Zero)
  /\ AngSign(ArcAngleOfCall) <= 0
  /\ ret = FullCircle(args.center, args.radius)

----------------------------------------------------------------------------
(* Stagger rotation *)

\* C11: calculateStaggeredRotation returns 0 for every even ringIndex and
\* staggerOffset * (2*PI / gridDivisions) for every odd ringIndex, for all
\* gridDivisions and staggerOffset (the odd case is read for the
\* gridDivisions that have a quotient 2*PI / gridDivisions).
C11_StaggeredRotation ==
  (fn = "calculateStaggeredRotation") =>
    /\ (args.ringIndex % 2 = 0) => ret = ZeroAngle
    /\ (args.ringIndex % 2 # 0 /\ args.gridDivisions # 0) =>
         ret = Angle(Rat(2 * args.staggerOffset, args.gridDivisions), Zero)

----------------------------------------------------------------------------
(* Double arithmetic with the infinities and NaN.  A zero carries no sign: *)
(* x / 0 has the sign of x.                                                *)

IsNaN(x) == x = NaN \/ x = Undefined

XNeg(x) ==
  IF IsFinite(x) THEN Neg(x)
  ELSE IF x = PosInf THEN NegInf
  ELSE IF x = NegInf THEN PosInf
  ELSE NaN

XAdd(x, y) ==
  IF IsFinite(x) /\ IsFinite(y) THEN Add(x, y)
  ELSE IF IsNaN(x) \/ IsNaN(y) THEN NaN
  ELSE IF IsFinite(x) THEN y
  ELSE IF IsFinite(y) THEN x
  ELSE IF x = y THEN x ELSE NaN

XSub(x, y) == XAdd(x, XNeg(y))

\* the sign of a number that is not NaN
XSign(x) == IF IsFinite(x) THEN Sign(x) ELSE x[1]

XMul(x, y) ==
  IF IsFinite(x) /\ IsFinite(y) THEN Mul(x, y)
  ELSE IF IsNaN(x) \/ IsNaN(y) THEN NaN
  ELSE IF XSign(x) = 0 \/ XSign(y) = 0 THEN NaN
  ELSE IF XSign(x) * XSign(y) > 0 THEN PosInf ELSE NegInf

XDiv(x, y) ==
  IF IsFinite(x) /\ IsFinite(y) THEN ExtDiv(x, y)
  ELSE IF IsNaN(x) \/ IsNaN(y) THEN NaN
  ELSE IF IsFinite(x) THEN Zero
  ELSE IF IsFinite(y) THEN (IF XSign(x) * XSign(y) >= 0 THEN x ELSE XNeg(x))
  ELSE NaN

\* x < y: false when either is NaN
XLt(x, y) ==
  IF IsFinite(x) /\ IsFinite(y) THEN Lt(x, y)
  ELSE IF IsNaN(x) \/ IsNaN(y) THEN FALSE
  ELSE IF x = y THEN FALSE
  ELSE x = NegInf \/ y = PosInf

\* the integer square root of n >= 0, searched between lo and hi
RECURSIVE ISqrt(_, _, _)
ISqrt(n, lo, hi) ==
  IF lo >= hi THEN lo
  ELSE LET mid == (lo + hi + 1) \div 2
       IN  IF mid * mid <= n THEN ISqrt(n, mid, hi) ELSE ISqrt(n, lo, mid - 1)

\* Math.sqrt(x) for a rational x that is the square of a rational (the only
\* lengths the modelled squares have); NaN for NaN and for x < 0
Sqrt(x) ==
  IF ~IsFinite(x) THEN (IF x = PosInf THEN PosInf ELSE NaN)
  ELSE IF Sign(x) < 0 THEN NaN
  ELSE Rat(ISqrt(x[1], 0, x[1]), ISqrt(x[3], 0, x[3]))

\* the rotations of the model, in degrees: the multiples of 90, whose cosine
\* and sine are exact
Rotations == {0, 90, 180, 270}
\* Math.cos(degToRad(deg)) and Math.sin(degToRad(deg))
CosDeg(deg) ==
  CASE deg % 360 = 0 -> One
    [] deg % 360 = 180 -> Num(0 - 1)
    [] OTHER -> Zero
SinDeg(deg) ==
  CASE deg % 360 = 90 -> One
    [] deg % 360 = 270 -> Num(0 - 1)
    [] OTHER -> Zero

----------------------------------------------------------------------------
(* Square pattern generator *)

\* Linear interpolation between two points given by their coordinates
interpolate(p1, p2, t) ==
  Point(XAdd(p1.x, XMul(XSub(p2.x, p1.x), t)),
        XAdd(p1.y, XMul(XSub(p2.y, p1.y), t)))

\* Generate corner points of a square: top-left, top-right, bottom-right,
\* bottom-left, rotated about the center
getSquareCorners(center, size, rotationDeg) ==
  LET cos == CosDeg(rotationDeg)
      sin == SinDeg(rotationDeg)
      offsets == <<[x |-> Neg(size), y |-> Neg(size)],
                   [x |-> size, y |-> Neg(size)],
                   [x |-> size, y |-> size],
                   [x |-> Neg(size), y |-> size]>>
  IN  [k \in 1..4 |->
         Point(Sub(Add(center.x, Mul(offsets[k].x, cos)), Mul(offsets[k].y, sin)),
               Add(Add(center.y, Mul(offsets[k].x, sin)), Mul(offsets[k].y, cos)))]

\* a square drawn through its corners in the same order for both directions
generateSquare_OneDirection(center, size, rotationDeg, clockwise) ==
  LET corners == getSquareCorners(center, size, rotationDeg)
  IN  build(closePath(lineTo(lineTo(lineTo(moveTo(<<>>, corners[1]),
              corners[2]), corners[3]), corners[4])))

\* Generate a simple square path
generateSquare(center, size, rotationDeg, clockwise) ==
  LET corners == getSquareCorners(center, size, rotationDeg)
  IN  IF clockwise
      THEN build(closePath(lineTo(lineTo(lineTo(moveTo(<<>>, corners[1]),
                   corners[2]), corners[3]), corners[4])))
      ELSE build(closePath(lineTo(lineTo(lineTo(moveTo(<<>>, corners[1]),
                   corners[4]), corners[3]), corners[2])))

\* the loop of drawSideWithNotches from notch i on: a line to just before
\* each notch and a move to just after it
RECURSIVE NotchLoop(_, _, _, _, _, _, _, _)
NotchLoop(builder, start, end, notchCount, notchHalf, ux, uy, i) ==
  IF i > notchCount THEN builder
  ELSE LET t == Rat(i, notchCount + 1)
           notchCenter == interpolate(start, end, t)
           beforeNotch == Point(XSub(notchCenter.x, XMul(ux, notchHalf)),
                                XSub(notchCenter.y, XMul(uy, notchHalf)))
           afterNotch == Point(XAdd(notchCenter.x, XMul(ux, notchHalf)),
                               XAdd(notchCenter.y, XMul(uy, notchHalf)))
       IN  NotchLoop(moveTo(lineTo(builder, beforeNotch), afterNotch),
                     start, end, notchCount, notchHalf, ux, uy, i + 1)

\* Draw a side with notch gaps
drawSideWithNotches(builder, start, end, notchCount, notchHalf) ==
  IF notchCount <= 0 THEN builder
  ELSE LET dx == Sub(end.x, start.x)
           dy == Sub(end.y, start.y)
           length == Sqrt(Add(Mul(dx, dx), Mul(dy, dy)))
           ux == XDiv(dx, length)
           uy == XDiv(dy, length)
       IN  NotchLoop(builder, start, end, notchCount, notchHalf, ux, uy, 1)

\* the polyline of generateSquareWithNotches over the corners in the order
\* c1 (first), c2, c3, c4: from the middle of the side c1-c2 (startPoint) to
\* c2, then side by side round to c1, then the notches of the first half
\* side towards that middle (endPoint)
NotchedPolyline(c1, c2, c3, c4, notchesPerSide, notchHalf) ==
  drawSideWithNotches(
    lineTo(drawSideWithNotches(
      lineTo(drawSideWithNotches(
        lineTo(drawSideWithNotches(
          lineTo(moveTo(<<>>, interpolate(c1, c2, Rat(1, 2))), c2),
          c2, c3, notchesPerSide, notchHalf), c3),
        c3, c4, notchesPerSide, notchHalf), c4),
      c4, c1, notchesPerSide, notchHalf), c1),
    c1, interpolate(c1, c2, Rat(1, 2)), notchesPerSide \div 2, notchHalf)

\* the order in which the corners are drawn: 0, 1, 2, 3 clockwise and
\* 0, 3, 2, 1 counter-clockwise (1-based here)
CornerOrder(clockwise) == IF clockwise THEN <<1, 2, 3, 4>> ELSE <<1, 4, 3, 2>>

\* the notched polyline over the corners taken in the given order
NotchedSquarePath(corners, order, notchesPerSide, notchHalf) ==
  build(NotchedPolyline(corners[order[1]], corners[order[2]], corners[order[3]],
                        corners[order[4]], notchesPerSide, notchHalf))

\* Generate a square with notches: an open polyline, not a closed square
generateSquareWithNotches(center, size, rotationDeg, clockwise, notchesPerSide, notchWidth) ==
  NotchedSquarePath(getSquareCorners(center, size, rotationDeg), CornerOrder(clockwise),
                    notchesPerSide, Div(notchWidth, Num(2)))
\* { ...DEFAULT_SQUARE_CONFIG, ...config }
MergeSquareConfig(config) ==
  [f \in DOMAIN DEFAULT_SQUARE_CONFIG |->
     IF f \in DOMAIN config THEN config[f] ELSE DEFAULT_SQUARE_CONFIG[f]]

\* const clockwise = config.alternating ? index % 2 === 0 : true
Clockwise(cfg, index) == IF cfg.alternating THEN index % 2 = 0 ELSE TRUE

\* the path of one square drawn in the given direction
SquarePathData(cfg, center, size, clockwise) ==
  IF cfg.notchesPerSide > 0
  THEN generateSquareWithNotches(center, size, cfg.rotation, clockwise,
                                 cfg.notchesPerSide, cfg.notchWidth)
  ELSE generateSquare(center, size, cfg.rotation, clockwise)

\* the square with its direction recorded and its path always clockwise
GeneratedSquare_PathClockwise(cfg, center, size, index) ==
  [index |-> index, size |-> size, clockwise |-> Clockwise(cfg, index),
   pathData |-> SquarePathData(cfg, center, size, TRUE)]

\* the square built for sizes[index + 1] (index is 0-based)
GeneratedSquare(cfg, center, size, index) ==
  [index |-> index, size |-> size, clockwise |-> Clockwise(cfg, index),
   pathData |-> SquarePathData(cfg, center, size, Clockwise(cfg, index))]

\* the center defaulted to the middle of the outer size: (outerSize / 2,
\* outerSize / 2)
SquareCenter_HalfOuter(cfg) ==
  IF cfg.center = UndefinedPoint
  THEN Point(Div(cfg.outerSize, Num(2)), Div(cfg.outerSize, Num(2)))
  ELSE cfg.center

\* const center = cfg.center || { x: cfg.outerSize, y: cfg.outerSize }
SquareCenter(cfg) ==
  IF cfg.center = UndefinedPoint THEN Point(cfg.outerSize, cfg.outerSize) ELSE cfg.center

\* the pattern with an outer boundary only when there is a square
SquarePatternOf_BoundaryNeedsSquares(cfg, center, sizes) ==
  [squares |-> [k \in 1..Len(sizes) |-> GeneratedSquare(cfg, center, sizes[k], k - 1)],
   outerBoundary |-> IF cfg.showOuterBoundary /\ Len(sizes) > 0
                     THEN generateSquare(center, cfg.outerSize, cfg.rotation, TRUE)
                     ELSE UndefinedPath,
   center |-> center, sizes |-> sizes]

\* the pattern of the merged configuration, its center and its sizes
SquarePatternOf(cfg, center, sizes) ==
  [squares |-> [k \in 1..Len(sizes) |-> GeneratedSquare(cfg, center, sizes[k], k - 1)],
   outerBoundary |-> IF cfg.showOuterBoundary
                     THEN generateSquare(center, cfg.outerSize, cfg.rotation, TRUE)
                     ELSE UndefinedPath,
   center |-> center, sizes |-> sizes]

\* the sizes of the merged configuration
SquareSizesOf(cfg) ==
  calculateSquareSizes(cfg.outerSize, cfg.squareCount, cfg.spacingMode,
    [innerSize |-> cfg.innerSize, outerGap |-> cfg.outerGap, shrinkage |-> cfg.shrinkage])

\* the pattern of the merged configuration
SquarePatternOfConfig(cfg) == SquarePatternOf(cfg, SquareCenter(cfg), SquareSizesOf(cfg))

\* Generate a complete concentric square pattern from configuration
generateSquarePattern(config) == SquarePatternOfConfig(MergeSquareConfig(config))

----------------------------------------------------------------------------
(* Polygon pattern generator.  The vertices of a polygon are points on a   *)
(* circle, kept as center, radius and angle; a point of an edge is kept as *)
(* the edge and its parameter t.                                           *)

\* the path of a call that throws a TypeError instead of returning
TypeError == <<[op |-> "TypeError"]>>
\* the pattern of a generator call that throws a TypeError
ThrownTypeError == [thrown |-> "TypeError"]

\* Get vertices of a regular polygon, the first at the top
getPolygonVertices(center, radius, sides, rotationDeg) ==
  [k \in 1..sides |->
     pointOnCircle(center, radius,
       PiTimes(Add(Sub(Rat(rotationDeg, 180), Rat(1, 2)), Rat(2 * (k - 1), sides))))]

\* Generate a simple polygon path; vertices[0] is undefined for a polygon
\* without vertices and moveTo reads its x
generatePolygon(center, radius, sides, rotationDeg) ==
  LET vertices == getPolygonVertices(center, radius, sides, rotationDeg)
      lines[k \in 1..Len(vertices)] ==
        IF k = 1 THEN moveTo(<<>>, vertices[1]) ELSE lineTo(lines[k - 1], vertices[k])
  IN  IF Len(vertices) = 0 THEN TypeError
      ELSE build(closePath(lines[Len(vertices)]))

\* sin(k * PI / 2) for the k (mod 2) that the edges of the modelled polygons
\* have: 0 (one side), 1 (two sides), 1/3 (six sides), 1/5 (ten sides)
SinHalfPi(k) ==
  LET f == Sub(k, Num(2 * Floor(Div(k, Num(2)))))
  IN  CASE f = Zero -> Zero
        [] f = One -> One
        [] f = Rat(1, 3) \/ f = Rat(5, 3) -> Rat(1, 2)
        [] f = Rat(1, 5) \/ f = Rat(9, 5) -> Div(Sub(PHI, One), Num(2))

\* Calculate distance between two points of the circle of a polygon: the
\* chord 2 * |radius| * sin(|a2 - a1| / 2)
distance(p1, p2) ==
  LET r == IF Sign(p1.r) < 0 THEN Neg(p1.r) ELSE p1.r
  IN  Mul(Mul(Num(2), r), SinHalfPi(Sub(p2.a[1], p1.a[1])))

\* a point whose coordinates are infinite or NaN
NonFinitePoint == Point(NaN, NaN)

\* Linear interpolation between two vertices p1 and p2 of a polygon:
\* p1 + (p2 - p1) * t
polygonInterpolate(p1, p2, t) ==
  IF ~IsFinite(t) THEN NonFinitePoint
  ELSE IF t = Zero \/ p1 = p2 \/ p1.r = Zero THEN p1
  ELSE IF t = One THEN p2
  ELSE [x |-> p1.x, y |-> p1.y, r |-> p1.r, a |-> p1.a, to |-> p2.a, t |-> t]

\* the segments j, j+1, ..., bridgesPerEdge of one edge, joined by spaces
RECURSIVE EdgeSegments(_, _, _, _, _, _, _)
EdgeSegments(startVertex, endVertex, edgeLength, segmentLength, bridgeGap, bridgesPerEdge, j) ==
  IF j > bridgesPerEdge THEN <<>>
  ELSE LET tStart == IF j = 0 THEN Zero
                     ELSE XDiv(XAdd(XMul(Num(j), segmentLength), bridgeGap), edgeLength)
           tEnd == IF j = bridgesPerEdge THEN One
                   ELSE XDiv(XSub(XMul(Num(j + 1), segmentLength), bridgeGap), edgeLength)
           segment == IF XLt(tStart, tEnd)
                      THEN build(lineTo(moveTo(<<>>,
                                   polygonInterpolate(startVertex, endVertex, tStart)),
                                   polygonInterpolate(startVertex, endVertex, tEnd)))
                      ELSE <<>>
       IN  segment \o EdgeSegments(startVertex, endVertex, edgeLength, segmentLength,
                                   bridgeGap, bridgesPerEdge, j + 1)

\* the sub-paths of the edge i (0-based) of generatePolygonWithBridges
EdgePaths(vertices, sides, bridgesPerEdge, bridgeGap, i) ==
  LET startVertex == vertices[i + 1]
      endVertex == vertices[((i + 1) % sides) + 1]
      edgeLength == distance(startVertex, endVertex)
  IN  IF bridgesPerEdge = 0
      THEN build(lineTo(moveTo(<<>>, startVertex), endVertex))
      ELSE EdgeSegments(startVertex, endVertex, edgeLength,
                        XDiv(edgeLength, Num(bridgesPerEdge + 1)), bridgeGap,
                        bridgesPerEdge, 0)

\* the polygon with gaps of twice the bridge width
generatePolygonWithBridges_WideGaps(center, radius, sides, rotationDeg, bridgeCount, bridgeWidth) ==
  LET vertices == getPolygonVertices(center, radius, sides, rotationDeg)
      bridgesPerEdge == IF sides > 0 THEN bridgeCount \div sides ELSE 0
      bridgeGap == bridgeWidth
      paths[i \in 0..sides] ==
        IF i = 0 THEN <<>>
        ELSE paths[i - 1] \o EdgePaths(vertices, sides, bridgesPerEdge, bridgeGap, i - 1)
  IN  IF sides <= 0 THEN <<>> ELSE paths[sides]

\* Generate a polygon with bridge gaps for expandable mesh pattern
generatePolygonWithBridges(center, radius, sides, rotationDeg, bridgeCount, bridgeWidth) ==
  LET vertices == getPolygonVertices(center, radius, sides, rotationDeg)
      bridgesPerEdge == IF sides > 0 THEN bridgeCount \div sides ELSE 0
      bridgeGap == Div(bridgeWidth, Num(2))
      paths[i \in 0..sides] ==
        IF i = 0 THEN <<>>
        ELSE paths[i - 1] \o EdgePaths(vertices, sides, bridgesPerEdge, bridgeGap, i - 1)
  IN  IF sides <= 0 THEN <<>> ELSE paths[sides]

\* { ...DEFAULT_POLYGON_CONFIG, ...config }
MergePolygonConfig(config) ==
  [f \in DOMAIN DEFAULT_POLYGON_CONFIG |->
     IF f \in DOMAIN config THEN config[f] ELSE DEFAULT_POLYGON_CONFIG[f]]

\* the polygon with its index counted from 1
GeneratedPolygon_IndexFromOne(cfg, center, radius, index) ==
  LET pathData == IF cfg.bridgeCount > 0
                  THEN generatePolygonWithBridges(center, radius, cfg.sides, cfg.rotation,
                                                  cfg.bridgeCount, cfg.bridgeWidth)
                  ELSE generatePolygon(center, radius, cfg.sides, cfg.rotation)
  IN  [index |-> index + 1, radius |-> radius, sides |-> cfg.sides, pathData |-> pathData]

\* the polygon built for radii[index + 1] (index is 0-based)
GeneratedPolygon(cfg, center, radius, index) ==
  LET pathData == IF cfg.bridgeCount > 0
                  THEN generatePolygonWithBridges(center, radius, cfg.sides, cfg.rotation,
                                                  cfg.bridgeCount, cfg.bridgeWidth)
                  ELSE generatePolygon(center, radius, cfg.sides, cfg.rotation)
  IN  [index |-> index, radius |-> radius, sides |-> cfg.sides, pathData |-> pathData]

\* Generate a complete concentric polygon pattern from configuration; a
\* TypeError thrown while a path is built ends the call
generatePolygonPattern(config) ==
  LET cfg == MergePolygonConfig(config)
      center == IF cfg.center = UndefinedPoint
                THEN Point(cfg.outerRadius, cfg.outerRadius)
                ELSE cfg.center
      radii == calculatePolygonRadii(cfg.outerRadius, cfg.polygonCount, cfg.spacingMode,
                 [innerRadius |-> cfg.innerRadius, outerGap |-> cfg.outerGap,
                  shrinkage |-> cfg.shrinkage])
      polygons == [k \in 1..Len(radii) |-> GeneratedPolygon(cfg, center, radii[k], k - 1)]
      outerBoundary == IF cfg.showOuterBoundary
                       THEN generatePolygon(center, cfg.outerRadius, cfg.sides, cfg.rotation)
                       ELSE UndefinedPath
  IN  IF (\E k \in 1..Len(polygons) : polygons[k].pathData = TypeError)
         \/ outerBoundary = TypeError
      THEN ThrownTypeError
      ELSE [polygons |-> polygons, outerBoundary |-> outerBoundary, center |-> center,
            radii |-> radii]

----------------------------------------------------------------------------
(* Calls of the square and polygon generators *)

\* largest squareCount and polygonCount a pattern is generated with
MaxShapes == 3
\* largest notchesPerSide a square is generated with
MaxNotches == 3
\* largest bridgeCount a polygon is generated with
MaxBridges == 13

Centers == {Point(Num(0), Num(0)), Point(Num(100), Num(100))}
\* the numbers of sides whose edge length the arithmetic represents
SidesValues == {0 - 1, 0, 1, 2, 6, 10}

CallGenerateSquare ==
  /\ fn = "none"
  /\ \E center \in Centers, size \in {Num(0), Num(10), Num(100)},
        rotation \in Rotations, clockwise \in BOOLEAN :
       /\ fn' = "generateSquare"
       /\ args' = [center |-> center, size |-> size, rotation |-> rotation,
                   clockwise |-> clockwise]
       /\ ret' = generateSquare(center, size, rotation, clockwise)
  /\ UNCHANGED pattern
  /\ UNCHANGED <<commands, store, history>>

CallGenerateSquareWithNotches ==
  /\ fn = "none"
  /\ \E center \in Centers, size \in {Num(0), Num(10), Num(100)},
        rotation \in Rotations, clockwise \in BOOLEAN,
        notchesPerSide \in (0 - 1)..MaxNotches,
        notchWidth \in {Num(0), Num(8), Num(400)} :
       /\ fn' = "generateSquareWithNotches"
       /\ args' = [center |-> center, size |-> size, rotation |-> rotation,
                   clockwise |-> clockwise, notchesPerSide |-> notchesPerSide,
                   notchWidth |-> notchWidth]
       /\ ret' = generateSquareWithNotches(center, size, rotation, clockwise,
                                           notchesPerSide, notchWidth)
  /\ UNCHANGED pattern
  /\ UNCHANGED <<commands, store, history>>

\* the values the fields of a square configuration are drawn from
SquareConfigValues ==
  [outerSize : {Num(0), Num(100)},
   innerSize : {Num(10)},
   squareCount : (0 - 1)..MaxShapes,
   spacingMode : {"uniform", "shrinkage"},
   outerGap : {Num(50)},
   shrinkage : {Rat(1, 2)},
   rotation : {0, 90},
   alternating : BOOLEAN,
   notchesPerSide : {0 - 1, 0, 2},
   notchWidth : {Num(8)},
   showOuterBoundary : BOOLEAN,
   center : {Point(Num(0), Num(0))}]

\* a caller supplies every field, every field but the center, overrides the
\* count and the alternation alone, or asks for more squares than a wide
\* shrinking gap leaves room for
CallGenerateSquarePattern ==
  /\ fn = "none"
  /\ \E config \in
          SquareConfigValues
            \cup {WithoutCenter(full) : full \in SquareConfigValues}
            \cup [squareCount : 0..MaxShapes, alternating : BOOLEAN]
            \cup [outerSize : {Num(100)}, squareCount : {MaxShapes},
                  outerGap : {Num(80)}, shrinkage : {Rat(1, 2)}] :
       /\ fn' = "generateSquarePattern"
       /\ args' = [config |-> config]
       /\ ret' = NoResult
       /\ pattern' = generateSquarePattern(config)
  /\ UNCHANGED <<commands, store, history>>

CallGeneratePolygon ==
  /\ fn = "none"
  /\ \E center \in Centers, radius \in {Num(0), Num(100)},
        sides \in SidesValues, rotation \in {0, 30} :
       /\ fn' = "generatePolygon"
       /\ args' = [center |-> center, radius |-> radius, sides |-> sides,
                   rotation |-> rotation]
       /\ ret' = generatePolygon(center, radius, sides, rotation)
  /\ UNCHANGED pattern
  /\ UNCHANGED <<commands, store, history>>

CallGeneratePolygonWithBridges ==
  /\ fn = "none"
  /\ \E center \in Centers, radius \in {Num(0), Num(100)},
        sides \in SidesValues, rotation \in {0, 30},
        bridgeCount \in (0 - 1)..MaxBridges,
        bridgeWidth \in {Num(0), Num(8), Num(40), Num(400)} :
       /\ fn' = "generatePolygonWithBridges"
       /\ args' = [center |-> center, radius |-> radius, sides |-> sides,
                   rotation |-> rotation, bridgeCount |-> bridgeCount,
                   bridgeWidth |-> bridgeWidth]
       /\ ret' = generatePolygonWithBridges(center, radius, sides, rotation,
                                            bridgeCount, bridgeWidth)
  /\ UNCHANGED pattern
  /\ UNCHANGED <<commands, store, history>>

\* the values the fields of a polygon configuration are drawn from
PolygonConfigValues ==
  [sides : {0 - 1, 0, 2, 6},
   outerRadius : {Num(100)},
   innerRadius : {Num(10)},
   polygonCount : (0 - 1)..MaxShapes,
   spacingMode : {"uniform", "shrinkage"},
   outerGap : {Num(50)},
   shrinkage : {Rat(1, 2)},
   rotation : {0},
   bridgeCount : {0 - 1, 0, 3, 6, MaxBridges},
   bridgeWidth : {Num(8), Num(400)},
   showOuterBoundary : BOOLEAN,
   center : {Point(Num(0), Num(0))}]

CallGeneratePolygonPattern ==
  /\ fn = "none"
  /\ \E config \in
          PolygonConfigValues
            \cup {WithoutCenter(full) : full \in PolygonConfigValues}
            \cup [polygonCount : 0..MaxShapes, bridgeCount : {0, 6}] :
       /\ fn' = "generatePolygonPattern"
       /\ args' = [config |-> config]
       /\ ret' = NoResult
       /\ pattern' = generatePolygonPattern(config)
  /\ UNCHANGED <<commands, store, history>>

ShapeNext ==
  \/ CallGenerateSquare
  \/ CallGenerateSquareWithNotches
  \/ CallGenerateSquarePattern
  \/ CallGeneratePolygon
  \/ CallGeneratePolygonWithBridges
  \/ CallGeneratePolygonPattern
  \/ Return

ShapeSpec == Init /\ [][ShapeNext]_vars

----------------------------------------------------------------------------
(* Properties of the square and polygon generators *)

\* the length of an edge of a polygon: 2 * radius * sin(PI / sides)
EdgeLength(sides, radius) ==
  CASE sides = 1 -> Zero
    [] sides = 2 -> Mul(Num(2), radius)
    [] sides = 6 -> radius
    [] sides = 10 -> Mul(radius, Sub(PHI, One))

\* every sub-segment of an edge with b bridges has a positive length: the
\* end ones segmentLength - bridgeWidth/2, the inner ones
\* segmentLength - bridgeWidth
GapsFit(sides, radius, b, bridgeWidth) ==
  LET segmentLength == Div(EdgeLength(sides, radius), Num(b + 1))
  IN  /\ Gt(segmentLength, Div(bridgeWidth, Num(2)))
      /\ b >= 2 => Gt(segmentLength, bridgeWidth)

EdgeLengthOfCall == EdgeLength(args.sides, args.radius)

\* bridges per edge of a call with sides >= 1
BridgesPerEdgeOfCall == args.bridgeCount \div args.sides

BridgesFit == GapsFit(args.sides, args.radius, BridgesPerEdgeOfCall, args.bridgeWidth)

\* the polygon of a call with every edge whole: one sub-path M, L per edge
WholeEdges ==
  LET v == getPolygonVertices(args.center, args.radius, args.sides, args.rotation)
      edge(i) == <<[op |-> "M", p |-> v[i]],
                   [op |-> "L", p |-> v[(i % args.sides) + 1]]>>
      all[i \in 0..args.sides] == IF i = 0 THEN <<>> ELSE all[i - 1] \o edge(i)
  IN  all[args.sides]

\* every notched side of a call has sub-segments of positive length: the
\* first one is segment - notchWidth/2 long, the others segment - notchWidth,
\* for the segment 2*size / (notchesPerSide + 1)
NotchesFit ==
  LET n == args.notchesPerSide
      segment == Div(Mul(Num(2), args.size), Num(n + 1))
  IN  /\ Gt(segment, Div(args.notchWidth, Num(2)))
      /\ n >= 2 => Gt(segment, args.notchWidth)

\* the coordinates of every point of the path are finite numbers
FiniteCoordinates(path) ==
  \A k \in 1..Len(path) :
    "p" \in DOMAIN path[k] => IsFinite(path[k].p.x) /\ IsFinite(path[k].p.y)

\* C12: when bridgeWidth (notchWidth) is so large that a sub-segment of an
\* edge (side) would have a non-positive length, generatePolygonWithBridges
\* emits every edge whole, one M and one L from vertex to vertex, and
\* generateSquareWithNotches emits the sides without gaps, a single M
\* followed by lines; no edge is dropped and no coordinate is NaN.
C12_OversizedGapsFallBack ==
  /\ (/\ fn = "generatePolygonWithBridges"
      /\ args.sides >= 2 /\ Gt(args.radius, Zero)
      /\ BridgesPerEdgeOfCall >= 1 /\ ~BridgesFit) =>
       ret = WholeEdges
  /\ (/\ fn = "generateSquareWithNotches"
      /\ args.notchesPerSide >= 1 /\ Gt(args.size, Zero) /\ ~NotchesFit) =>
       /\ \A k \in 2..Len(ret) : ret[k].op = "L"
       /\ FiniteCoordinates(ret)

----------------------------------------------------------------------------
(* Spiral pattern generator.  A sample of an arm is a point on a circle    *)
(* whose radius is kept as innerRadius, range, spiral type and progress t: *)
(* the square root and the exponential are not evaluated.  A control point *)
(* is kept as the three samples it is computed from.                       *)

\* Math.ceil(x)
Ceil(x) == 0 - Floor(Neg(x))

\* Calculate radius at a given point along the spiral:
\* innerRadius + range * ease(t), ease by the spiral type
calculateSpiralRadius(innerRadius, outerRadius, t, spiralType, growthFactor) ==
  [innerRadius |-> innerRadius, range |-> Sub(outerRadius, innerRadius),
   spiralType |-> spiralType, t |-> t,
   growthFactor |-> IF spiralType = "logarithmic" THEN growthFactor ELSE Zero]

\* the samples i, i+1, ..., totalSegments of generateSpiralArm
RECURSIVE SpiralPoints(_, _, _, _, _, _, _, _, _)
SpiralPoints(center, innerRadius, outerRadius, startAngle, turns, spiralType, growthFactor, totalSegments, i) ==
  IF i > totalSegments THEN <<>>
  ELSE LET t == XDiv(Num(i), Num(totalSegments))
           angle == AngAdd(startAngle, PiTimes(XMul(XMul(t, turns), Num(2))))
           radius == calculateSpiralRadius(innerRadius, outerRadius, t, spiralType,
                                           growthFactor)
       IN  <<pointOnCircle(center, radius, angle)>>
             \o SpiralPoints(center, innerRadius, outerRadius, startAngle, turns,
                             spiralType, growthFactor, totalSegments, i + 1)

\* Math.max and Math.min of two integers
Max(m, n) == IF m >= n THEN m ELSE n
Min(m, n) == IF m <= n THEN m ELSE n

\* the control point base + (plus - minus) * tension / 3, tension = 0.5
ControlPoint(base, plus, minus) ==
  [base |-> base, plus |-> plus, minus |-> minus, factor |-> Rat(1, 6)]

\* the curve fitter without its test for fewer than 2 points: points[0] is
\* undefined for no point at all, and one point gives a lone M
pointsToBezierPath_NoShortTest(points) ==
  LET n == Len(points)
      curve(i) ==
        LET p0 == points[Max(0, i - 1) + 1]
            p1 == points[i + 1]
            p2 == points[i + 2]
            p3 == points[Min(n - 1, i + 2) + 1]
        IN  [op |-> "C", cp1 |-> ControlPoint(p1, p2, p0),
             cp2 |-> ControlPoint(p2, p1, p3), p |-> p2, decimals |-> 3]
  IN  IF n = 0 THEN TypeError
      ELSE IF n = 2
      THEN <<[op |-> "M", p |-> points[1], decimals |-> 3],
             [op |-> "L", p |-> points[2], decimals |-> 3]>>
      ELSE <<[op |-> "M", p |-> points[1], decimals |-> 3]>>
             \o [k \in 1..(n - 1) |-> curve(k - 1)]

\* Convert a series of points to a smooth bezier path; every coordinate is
\* written with toFixed(3)
pointsToBezierPath(points) ==
  LET n == Len(points)
      \* the C token of the loop index i (0-based)
      curve(i) ==
        LET p0 == points[Max(0, i - 1) + 1]
            p1 == points[i + 1]
            p2 == points[i + 2]
            p3 == points[Min(n - 1, i + 2) + 1]
        IN  [op |-> "C", cp1 |-> ControlPoint(p1, p2, p0),
             cp2 |-> ControlPoint(p2, p1, p3), p |-> p2, decimals |-> 3]
  IN  IF n < 2 THEN <<>>
      ELSE IF n = 2
      THEN <<[op |-> "M", p |-> points[1], decimals |-> 3],
             [op |-> "L", p |-> points[2], decimals |-> 3]>>
      ELSE <<[op |-> "M", p |-> points[1], decimals |-> 3]>>
             \o [k \in 1..(n - 1) |-> curve(k - 1)]

\* the samples of an arm without the last one: the loop run while
\* i < totalSegments
SpiralArmPoints_NoEndSample(center, innerRadius, outerRadius, startAngle, turns, spiralType, growthFactor) ==
  LET segmentsPerTurn == 32
      totalSegments == Ceil(Mul(turns, Num(segmentsPerTurn)))
  IN  SubSeq(SpiralPoints(center, innerRadius, outerRadius, startAngle, turns,
                          spiralType, growthFactor, totalSegments, 0),
             1, totalSegments)

\* the samples of an arm: totalSegments + 1 of them when totalSegments >= 0
SpiralArmPoints(center, innerRadius, outerRadius, startAngle, turns, spiralType, growthFactor) ==
  LET segmentsPerTurn == 32
      totalSegments == Ceil(Mul(turns, Num(segmentsPerTurn)))
  IN  SpiralPoints(center, innerRadius, outerRadius, startAngle, turns, spiralType,
                   growthFactor, totalSegments, 0)

\* Generate a single spiral arm path using bezier curves
generateSpiralArm(center, innerRadius, outerRadius, startAngle, turns, spiralType, growthFactor) ==
  pointsToBezierPath(SpiralArmPoints(center, innerRadius, outerRadius, startAngle,
                                     turns, spiralType, growthFactor))

\* { ...DEFAULT_SPIRAL_CONFIG, ...config }
MergeSpiralConfig(config) ==
  [f \in DOMAIN DEFAULT_SPIRAL_CONFIG |->
     IF f \in DOMAIN config THEN config[f] ELSE DEFAULT_SPIRAL_CONFIG[f]]

\* the arm of index i of generateSpiralPattern
GeneratedSpiralArm(cfg, center, i) ==
  LET armAngleStep == IF cfg.armCount # 0 THEN PiTimes(Rat(2, cfg.armCount))
                      ELSE Angle(PosInf, Zero)
      startAngle == AngAdd(PiTimes(Rat(cfg.rotation, 180)),
                           AngScale(armAngleStep, Num(i)))
  IN  [index |-> i, startAngle |-> startAngle,
       pathData |-> generateSpiralArm(center, cfg.innerRadius, cfg.outerRadius,
                      startAngle, cfg.turns, cfg.spiralType, cfg.growthFactor)]

\* Generate a complete multi-arm spiral pattern from configuration
generateSpiralPattern(config) ==
  LET cfg == MergeSpiralConfig(config)
      center == IF cfg.center = UndefinedPoint
                THEN Point(cfg.outerRadius, cfg.outerRadius)
                ELSE cfg.center
      arms == [k \in 1..cfg.armCount |-> GeneratedSpiralArm(cfg, center, k - 1)]
      outerBoundary == IF cfg.showOuterBoundary
                       THEN circleToPath(center, cfg.outerRadius)
                       ELSE UndefinedPath
  IN  [arms |-> arms, outerBoundary |-> outerBoundary, center |-> center]

----------------------------------------------------------------------------
(* Calls of the spiral generator *)

\* largest number of segments (ceil(turns * 32)) of an arm generated directly
MaxSegments == 5
\* largest armCount a pattern is generated with
MaxArms == 3

\* turns in steps of 1/64 turn: half a segment
TurnsValues == {Rat(k, 64) : k \in (0 - 2)..(2 * MaxSegments)}
SpiralTypes == {"logarithmic", "archimedean", "fermat"}

CallGenerateSpiralArm ==
  /\ fn = "none"
  /\ \E center \in Centers, outerRadius \in {Num(0), Num(100)},
        startAngle \in {ZeroAngle, PiTimes(Rat(1, 2))}, turns \in TurnsValues,
        spiralType \in SpiralTypes, growthFactor \in {Zero, Rat(2, 10)} :
       /\ fn' = "generateSpiralArm"
       /\ args' = [center |-> center, innerRadius |-> Num(10),
                   outerRadius |-> outerRadius, startAngle |-> startAngle,
                   turns |-> turns, spiralType |-> spiralType,
                   growthFactor |-> growthFactor]
       /\ ret' = generateSpiralArm(center, Num(10), outerRadius, startAngle, turns,
                                   spiralType, growthFactor)
  /\ UNCHANGED pattern
  /\ UNCHANGED <<commands, store, history>>

\* the values the fields of a spiral configuration are drawn from
SpiralConfigValues ==
  [armCount : (0 - 1)..MaxArms,
   outerRadius : {Num(0), Num(100)},
   innerRadius : {Num(10)},
   turns : {Num(0 - 1), Num(0), Rat(1, 64), Rat(1, 16)},
   spiralType : SpiralTypes,
   growthFactor : {Zero, Rat(2, 10)},
   rotation : {0, 90},
   strokeWidth : {Num(1)},
   showOuterBoundary : BOOLEAN,
   center : {Point(Num(0), Num(0))}]

CallGenerateSpiralPattern ==
  /\ fn = "none"
  /\ \E config \in
          SpiralConfigValues
            \cup {WithoutCenter(full) : full \in SpiralConfigValues}
            \cup [armCount : 0..MaxArms] :
       /\ fn' = "generateSpiralPattern"
       /\ args' = [config |-> config]
       /\ ret' = NoResult
       /\ pattern' = generateSpiralPattern(config)
  /\ UNCHANGED <<commands, store, history>>

SpiralNext ==
  \/ CallGenerateSpiralArm
  \/ CallGenerateSpiralPattern
  \/ Return

SpiralSpec == Init /\ [][SpiralNext]_vars

\* the four pattern generators called with any configuration
PatternNext ==
  \/ CallGenerateRingPattern
  \/ CallGenerateSquarePattern
  \/ CallGeneratePolygonPattern
  \/ CallGenerateSpiralPattern
  \/ Return

PatternSpec == Init /\ [][PatternNext]_vars

----------------------------------------------------------------------------
(* Properties of the pattern generators *)

IsPatternCall ==
  fn \in {"generateRingPattern", "generateSquarePattern", "generatePolygonPattern",
          "generateSpiralPattern"}

\* C13: for every configuration of finite numbers, zero and negative
\* counts, sides, extents, turns and arm counts included, generateRingPattern,
\* generateSquarePattern, generatePolygonPattern and generateSpiralPattern
\* return a pattern and never throw.
C13_GeneratorsNeverThrow ==
  IsPatternCall => (pattern # ThrownTypeError /\ "center" \in DOMAIN pattern)

\* the midpoint of the first side of the square of a call: the top side
\* (offset (0, -size)) clockwise, the left side (offset (-size, 0))
\* counter-clockwise, rotated about the center and serialized
StartMidpoint ==
  LET cos == CosDeg(args.rotation)
      sin == SinDeg(args.rotation)
      ox == IF args.clockwise THEN Zero ELSE Neg(args.size)
      oy == IF args.clockwise THEN Neg(args.size) ELSE Zero
  IN  Point(round(Sub(Add(args.center.x, Mul(ox, cos)), Mul(oy, sin)), 2),
            round(Add(Add(args.center.y, Mul(ox, sin)), Mul(oy, cos)), 2))

\* the point the path draws last: the end of its last L
RECURSIVE LastDrawnPoint(_)
LastDrawnPoint(path) ==
  IF Len(path) = 0 THEN NonFinitePoint
  ELSE IF path[Len(path)].op = "L" THEN path[Len(path)].p
  ELSE LastDrawnPoint(SubSeq(path, 1, Len(path) - 1))

\* C14: for notchesPerSide >= 1, either direction, a positive size and
\* notches that fit, the path of generateSquareWithNotches is an open
\* polyline (no Z) that starts with a move to the midpoint of the first side
\* and whose last drawn point is that same midpoint.
C14_NotchedSquareReturnsToStart ==
  (/\ fn = "generateSquareWithNotches"
   /\ args.notchesPerSide >= 1 /\ Gt(args.size, Zero) /\ NotchesFit) =>
    /\ \A k \in 1..Len(ret) : ret[k].op # "Z"
    /\ ret[1] = [op |-> "M", p |-> StartMidpoint]
    /\ LastDrawnPoint(ret) = StartMidpoint
    /\ ret[Len(ret)].op = "L"

\* corner k (0-based: top-left, top-right, bottom-right, bottom-left) of the
\* square of half-width s about c, before rotation
UnrotatedCorner(c, s, k) ==
  CASE k = 0 -> Point(Sub(c.x, s), Sub(c.y, s))
    [] k = 1 -> Point(Add(c.x, s), Sub(c.y, s))
    [] k = 2 -> Point(Add(c.x, s), Add(c.y, s))
    [] k = 3 -> Point(Sub(c.x, s), Add(c.y, s))

\* corner k of the square rotated by a multiple of 90 degrees, as serialized:
\* a rotation by 90 degrees carries each corner to the place of the next one
CornerAt(c, s, rotation, k) ==
  roundPoint(UnrotatedCorner(c, s, (k + rotation \div 90) % 4))

\* corner k of the rotated square of a call
RotatedCorner(k) == CornerAt(args.center, args.size, args.rotation, k)

\* C15: generateSquare returns a closed path M, L, L, L, Z over the four
\* rotated corners, starting at corner 0: corners 0, 1, 2, 3 when clockwise
\* and 0, 3, 2, 1 when not.
C15_SquareClosedPath ==
  (fn = "generateSquare") =>
    LET order == IF args.clockwise THEN <<0, 1, 2, 3>> ELSE <<0, 3, 2, 1>>
    IN  /\ Ops(ret) = <<"M", "L", "L", "L", "Z">>
        /\ \A k \in 1..4 : ret[k].p = RotatedCorner(order[k])

\* a counter-clockwise square, rotated, with four distinct corners
C15_Witness ==
  /\ fn = "generateSquare"
  /\ ~args.clockwise
  /\ args.rotation = 90
  /\ Gt(args.size, Zero)
  /\ ret[2].p = RotatedCorner(3)
  /\ ret[2].p # ret[4].p
  /\ ret[5].op = "Z"

\* the field of the square configuration in effect for a call
SquareConfigField(f) ==
  IF f \in DOMAIN args.config THEN args.config[f] ELSE DEFAULT_SQUARE_CONFIG[f]

\* the direction the path of square k of the pattern is drawn in: both
\* generators draw their first line to corner 1 when clockwise and to
\* corner 3 when not
DrawnClockwise(k) ==
  pattern.squares[k].pathData[2].p =
    CornerAt(pattern.center, pattern.squares[k].size, SquareConfigField("rotation"), 1)
DrawnCounterClockwise(k) ==
  pattern.squares[k].pathData[2].p =
    CornerAt(pattern.center, pattern.squares[k].size, SquareConfigField("rotation"), 3)

\* C16: in generateSquarePattern the square of index i is clockwise exactly
\* when i is even if alternating is true, every square is clockwise if
\* alternating is false, and the clockwise flag of each element is the
\* direction its path is drawn in (read off the path of a square of size
\* other than 0).
C16_AlternatingDirections ==
  (fn = "generateSquarePattern") =>
    \A k \in 1..Len(pattern.squares) :
      LET sq == pattern.squares[k]
      IN  /\ sq.index = k - 1
          /\ sq.clockwise = (SquareConfigField("alternating") => (k - 1) % 2 = 0)
          /\ ~IsZero(sq.size) =>
               /\ sq.clockwise => (DrawnClockwise(k) /\ ~DrawnCounterClockwise(k))
               /\ ~sq.clockwise => (DrawnCounterClockwise(k) /\ ~DrawnClockwise(k))

\* an alternating pattern of three notched squares: clockwise,
\* counter-clockwise, clockwise
C16_Witness ==
  /\ fn = "generateSquarePattern"
  /\ SquareConfigField("alternating")
  /\ SquareConfigField("notchesPerSide") > 0
  /\ Len(pattern.squares) = 3
  /\ pattern.squares[1].clockwise /\ DrawnClockwise(1)
  /\ ~pattern.squares[2].clockwise /\ DrawnCounterClockwise(2)
  /\ pattern.squares[3].clockwise /\ DrawnClockwise(3)

\* vertex i (0-based) of the polygon of a call: the point of the circle at
\* the angle (rotation/180 - 1/2 + 2*i/sides) * PI
VertexOfCall(i) ==
  [x |-> args.center.x, y |-> args.center.y, r |-> args.radius,
   a |-> Angle(Add(Sub(Rat(args.rotation, 180), Rat(1, 2)), Rat(2 * i, args.sides)),
               Zero)]

\* the point at the fraction t of the edge i of the polygon of a call
EdgePointOfCall(i, t) ==
  LET from == VertexOfCall(i)
      to == VertexOfCall((i + 1) % args.sides)
  IN  IF t = Zero THEN from
      ELSE IF t = One THEN to
      ELSE [x |-> from.x, y |-> from.y, r |-> from.r, a |-> from.a,
            to |-> to.a, t |-> t]

\* half the bridge width as a fraction of the edge
HalfGapFraction == Div(args.bridgeWidth, Mul(Num(2), EdgeLengthOfCall))

\* sub-path j (0..b) of the edge i: from the vertex, or from half a bridge
\* width after the division point j/(b+1), to half a bridge width before the
\* division point (j+1)/(b+1), or to the next vertex
ExpectedSubPath(i, j) ==
  LET b == BridgesPerEdgeOfCall
      tStart == IF j = 0 THEN Zero ELSE Add(Rat(j, b + 1), HalfGapFraction)
      tEnd == IF j = b THEN One ELSE Sub(Rat(j + 1, b + 1), HalfGapFraction)
  IN  <<[op |-> "M", p |-> EdgePointOfCall(i, tStart)],
        [op |-> "L", p |-> EdgePointOfCall(i, tEnd)]>>

\* C17: generatePolygonWithBridges with bridgeCount > 0 and
\* b = floor(bridgeCount / sides): when the gaps fit, the path is
\* sides * (b + 1) open sub-paths, an M and an L each and no Z; the edge i
\* gives the sub-paths i*(b+1) .. i*(b+1)+b, which leave b gaps of width
\* bridgeWidth centred on the division points j/(b+1) and end at the two
\* vertices of the edge; with b = 0 every edge is one whole sub-path.
C17_BridgesDivideEdges ==
  (/\ fn = "generatePolygonWithBridges"
   /\ args.bridgeCount > 0 /\ args.sides >= 1 /\ Gt(args.radius, Zero)
   /\ (BridgesPerEdgeOfCall = 0 \/ BridgesFit)) =>
    LET b == BridgesPerEdgeOfCall
    IN  /\ Len(ret) = 2 * args.sides * (b + 1)
        /\ \A k \in 1..Len(ret) : ret[k].op # "Z"
        /\ \A i \in 0..(args.sides - 1) : \A j \in 0..b :
             SubSeq(ret, 2 * (i * (b + 1) + j) + 1, 2 * (i * (b + 1) + j) + 2)
               = ExpectedSubPath(i, j)

\* a hexagon with two bridges on every edge: eighteen sub-paths
C17_Witness ==
  /\ fn = "generatePolygonWithBridges"
  /\ args.sides = 6 /\ BridgesPerEdgeOfCall = 2 /\ Gt(args.radius, Zero)
  /\ Gt(args.bridgeWidth, Zero) /\ BridgesFit
  /\ Len(ret) = 36
  /\ ret[3].p.t = Add(Rat(1, 3), HalfGapFraction)

\* the gaps of a polygon path: the sub-paths that begin inside an edge, after
\* a gap, and not at a vertex
GapCount(path) ==
  Cardinality({k \in 1..Len(path) : path[k].op = "M" /\ "t" \in DOMAIN path[k].p})

\* the field of the polygon configuration in effect for a call
PolygonConfigField(f) ==
  IF f \in DOMAIN args.config THEN args.config[f] ELSE DEFAULT_POLYGON_CONFIG[f]

\* C18: bridgeCount is the number of gaps of a polygon: for every
\* bridgeCount = n > 0 and every number of sides, a generated polygon (whose
\* gaps fit its edges) has exactly n gaps, so that only bridgeCount = 0 gives
\* a polygon without gaps.
C18_BridgeCountIsGapCount ==
  /\ (/\ fn = "generatePolygonWithBridges"
      /\ args.bridgeCount > 0 /\ args.sides >= 1 /\ Gt(args.radius, Zero)
      /\ Gt(args.bridgeWidth, Zero)
      /\ (BridgesPerEdgeOfCall = 0 \/ BridgesFit)) =>
       GapCount(ret) = args.bridgeCount
  /\ (/\ fn = "generatePolygonPattern"
      /\ pattern # ThrownTypeError
      /\ PolygonConfigField("bridgeCount") > 0 /\ PolygonConfigField("sides") >= 1) =>
       \A k \in 1..Len(pattern.polygons) :
         LET sides == PolygonConfigField("sides")
             n == PolygonConfigField("bridgeCount")
             radius == pattern.polygons[k].radius
         IN  (/\ Gt(radius, Zero)
              /\ (n \div sides = 0
                    \/ GapsFit(sides, radius, n \div sides, PolygonConfigField("bridgeWidth")))) =>
               GapCount(pattern.polygons[k].pathData) = n

----------------------------------------------------------------------------
(* Properties of the spiral generator *)

\* the samples generateSpiralArm takes in a call
SamplesOfCall ==
  SpiralArmPoints(args.center, args.innerRadius, args.outerRadius, args.startAngle,
                  args.turns, args.spiralType, args.growthFactor)

\* ceil(turns * 32) of a call
SegmentsOfCall == Ceil(Mul(args.turns, Num(32)))

\* the path is one M followed by n C tokens, the k-th ending at sample k + 1
MoveThenCurves(path, samples, n) ==
  /\ Len(path) = n + 1
  /\ path[1].op = "M" /\ path[1].p = samples[1]
  /\ \A k \in 1..n : path[k + 1].op = "C" /\ path[k + 1].p = samples[k + 1]

\* C19 as stated: generateSpiralArm samples exactly ceil(turns * 32) points,
\* and with 3 or more samples the path is one M followed by one C per
\* consecutive pair of samples.
C19_SamplesCeilTurns ==
  (fn = "generateSpiralArm" /\ Gt(args.turns, Zero)) =>
    /\ Len(SamplesOfCall) = SegmentsOfCall
    /\ Len(SamplesOfCall) >= 3 =>
         MoveThenCurves(ret, SamplesOfCall, Len(SamplesOfCall) - 1)

\* C19: generateSpiralArm with turns > 0 samples ceil(turns * 32) + 1 points,
\* the two ends of each of its ceil(turns * 32) segments, and with 3 or more
\* samples the path is one M followed by exactly ceil(turns * 32) C tokens,
\* one per consecutive pair of samples.
C19_SamplesPerSegment ==
  (fn = "generateSpiralArm" /\ Gt(args.turns, Zero)) =>
    /\ Len(SamplesOfCall) = SegmentsOfCall + 1
    /\ Len(SamplesOfCall) >= 3 =>
         MoveThenCurves(ret, SamplesOfCall, SegmentsOfCall)

\* an arm of three segments, the last one partial: four samples, M and
\* three C
C19_Witness ==
  /\ fn = "generateSpiralArm"
  /\ args.turns = Rat(5, 64)
  /\ Len(SamplesOfCall) = 4
  /\ Ops(ret) = <<"M", "C", "C", "C">>

\* C20: the curve fitter returns the empty path for fewer than 2 samples,
\* which is what generateSpiralArm takes for turns <= 0, and for exactly 2
\* samples it returns one M followed by one L, with no C; it does not throw.
C20_ShortArms ==
  (fn = "generateSpiralArm") =>
    /\ ret # TypeError
    /\ Le(args.turns, Zero) => Len(SamplesOfCall) < 2
    /\ Len(SamplesOfCall) < 2 => ret = <<>>
    /\ Len(SamplesOfCall) = 2 =>
         /\ Ops(ret) = <<"M", "L">>
         /\ ret[1].p = SamplesOfCall[1] /\ ret[2].p = SamplesOfCall[2]

\* an arm of no turns: its single sample has the progress 0/0 and the path
\* is empty
C20_Witness ==
  /\ fn = "generateSpiralArm"
  /\ args.turns = Zero
  /\ Len(SamplesOfCall) = 1
  /\ SamplesOfCall[1].r.t = NaN
  /\ ret = <<>>

----------------------------------------------------------------------------
(* Properties of the returned patterns *)

\* the pattern is a returned one (the call did not throw)
PatternReturned == IsPatternCall /\ pattern # ThrownTypeError

\* the elements of the returned pattern: rings, squares, polygons or arms
PatternElements ==
  IF fn = "generateRingPattern" THEN pattern.rings
  ELSE IF fn = "generateSquarePattern" THEN pattern.squares
  ELSE IF fn = "generatePolygonPattern" THEN pattern.polygons
  ELSE pattern.arms

\* the value is what round(value, decimals) gives: NaN, an infinity, or a
\* multiple of 10^-decimals
RoundedTo(value, decimals) == round(value, decimals) = value

\* the coordinates the command is serialized with have 2 decimals: a token
\* of the curve fitter says how many it is written with, a token of the path
\* builder holds rounded values (the rounding of a point kept on its circle
\* or on its edge is implied)
TwoDecimals(command) ==
  IF "decimals" \in DOMAIN command THEN command.decimals = 2
  ELSE /\ "rx" \in DOMAIN command =>
            RoundedTo(command.rx, 2) /\ RoundedTo(command.ry, 2)
       /\ ("p" \in DOMAIN command /\ command.p.r = Zero /\ IsFiniteAngle(command.p.a)) =>
            RoundedTo(command.p.x, 2) /\ RoundedTo(command.p.y, 2)

AllTwoDecimals(path) == \A k \in 1..Len(path) : TwoDecimals(path[k])

\* C21: every coordinate of every pathData and of every outerBoundary
\* returned by generateRingPattern, generateSquarePattern,
\* generatePolygonPattern and generateSpiralPattern is serialized rounded to
\* 2 decimal places.
C21_CoordinatesTwoDecimals ==
  PatternReturned =>
    /\ AllTwoDecimals(pattern.outerBoundary)
    /\ \A k \in 1..Len(PatternElements) : AllTwoDecimals(PatternElements[k].pathData)

\* the configuration of the call after the merge with the defaults
MergedConfigOfCall ==
  IF fn = "generateRingPattern" THEN MergeRingConfig(args.config)
  ELSE IF fn = "generateSquarePattern" THEN MergeSquareConfig(args.config)
  ELSE IF fn = "generatePolygonPattern" THEN MergePolygonConfig(args.config)
  ELSE MergeSpiralConfig(args.config)

\* the configured outer extent: outerSize of a square pattern, outerRadius
\* of the others
OuterOfCall ==
  IF fn = "generateSquarePattern" THEN MergedConfigOfCall.outerSize
  ELSE MergedConfigOfCall.outerRadius

\* the element count the call is configured with
CountOfCall ==
  IF fn = "generateRingPattern" THEN MergedConfigOfCall.ringCount
  ELSE IF fn = "generateSquarePattern" THEN MergedConfigOfCall.squareCount
  ELSE IF fn = "generatePolygonPattern" THEN MergedConfigOfCall.polygonCount
  ELSE MergedConfigOfCall.armCount

\* C24: for every generator, the returned center is (outer, outer), outer
\* the configured outerRadius / outerSize, when the configuration supplies
\* no center, whatever the count, and is the supplied center otherwise.
C24_DefaultCenter ==
  PatternReturned =>
    pattern.center = IF "center" \in DOMAIN args.config
                     THEN args.config.center
                     ELSE Point(OuterOfCall, OuterOfCall)

\* a square pattern of no square, generated without a center for the outer
\* size 100, has the center (100, 100)
C24_Witness ==
  /\ fn = "generateSquarePattern"
  /\ "center" \notin DOMAIN args.config
  /\ CountOfCall = 0
  /\ OuterOfCall = Num(100)
  /\ pattern.center = Point(Num(100), Num(100))

\* the closed square of half-side s around c, rotated, written out:
\* M corner 0, L corners 1, 2, 3, Z
ClosedSquare(c, s, rotation) ==
  <<[op |-> "M", p |-> CornerAt(c, s, rotation, 0)],
    [op |-> "L", p |-> CornerAt(c, s, rotation, 1)],
    [op |-> "L", p |-> CornerAt(c, s, rotation, 2)],
    [op |-> "L", p |-> CornerAt(c, s, rotation, 3)],
    [op |-> "Z"]>>

\* vertex i of the regular polygon on the circle of radius R around c: at
\* the angle rotation - PI/2 + i * 2*PI / sides
VertexAt(c, R, sides, rotation, i) ==
  [x |-> c.x, y |-> c.y, r |-> R,
   a |-> Angle(Add(Sub(Rat(rotation, 180), Rat(1, 2)), Rat(2 * i, sides)), Zero)]

\* the closed polygon written out: M vertex 0, L the other vertices, Z
ClosedPolygon(c, R, sides, rotation) ==
  [k \in 1..(sides + 1) |->
     IF k = sides + 1 THEN [op |-> "Z"]
     ELSE [op |-> IF k = 1 THEN "M" ELSE "L",
           p |-> VertexAt(c, R, sides, rotation, k - 1)]]

\* the closed shape of the family at the configured outer extent around the
\* returned center
ExpectedOuterBoundary ==
  IF fn = "generateSquarePattern"
  THEN ClosedSquare(pattern.center, OuterOfCall, MergedConfigOfCall.rotation)
  ELSE IF fn = "generatePolygonPattern"
  THEN ClosedPolygon(pattern.center, OuterOfCall, MergedConfigOfCall.sides,
                     MergedConfigOfCall.rotation)
  ELSE FullCircle(pattern.center, OuterOfCall)

\* C25: for every generator, outerBoundary is defined exactly when
\* showOuterBoundary is true, whatever the element count (0 included) and
\* the cut, notch and bridge settings are, and when defined it is the uncut
\* closed shape at the outer extent around the returned center.
C25_OuterBoundaryIffShown ==
  PatternReturned =>
    IF MergedConfigOfCall.showOuterBoundary
    THEN pattern.outerBoundary = ExpectedOuterBoundary
    ELSE pattern.outerBoundary = UndefinedPath

\* a square pattern of no square, with notches configured, still has the
\* closed square as its outer boundary
C25_Witness ==
  /\ fn = "generateSquarePattern"
  /\ MergedConfigOfCall.showOuterBoundary
  /\ MergedConfigOfCall.notchesPerSide > 0
  /\ Len(pattern.squares) = 0
  /\ OuterOfCall = Num(100)
  /\ Ops(pattern.outerBoundary) = <<"M", "L", "L", "L", "Z">>

----------------------------------------------------------------------------
(* Properties of the stagger of a ring pattern *)

\* the field of the merged ring configuration of a call
RingConfigField(f) == MergeRingConfig(args.config)[f]

\* staggerOffset grid positions: staggerOffset * 2*PI / gridDivisions
StaggerAngle ==
  Angle(Rat(2 * RingConfigField("staggerOffset"), RingConfigField("gridDivisions")), Zero)

\* C26: in a generated ring pattern, the rings of odd index use grid
\* position 0 (rotation 0) and the rings of even index are offset by
\* staggerOffset grid positions (rotation staggerOffset * 2*PI /
\* gridDivisions, read for the gridDivisions that have that quotient).
C26_OddRingsAtGridZero ==
  (fn = "generateRingPattern") =>
    \A k \in 1..Len(pattern.rings) :
      IF pattern.rings[k].index % 2 = 1
      THEN pattern.rings[k].rotation = ZeroAngle
      ELSE RingConfigField("gridDivisions") # 0 =>
             pattern.rings[k].rotation = StaggerAngle

\* the ring is drawn as arcs: M, A, M, A, ...
IsSegmented(path) ==
  /\ Len(path) >= 2
  /\ Len(path) % 2 = 0
  /\ \A k \in 1..Len(path) : path[k].op = IF k % 2 = 1 THEN "M" ELSE "A"

\* the angles of the centres of the gaps of a segmented ring: gap k lies
\* between the end of arc k and the start of the next arc (the first arc,
\* one turn on, after the last)
GapCentres(path) ==
  LET n == Len(path) \div 2
      endOf(k) == path[2 * k].p.a
      startAfter(k) == IF k < n THEN path[2 * k + 1].p.a
                       ELSE AngAdd(path[1].p.a, PiTimes(Num(2)))
  IN  {AngScale(AngAdd(endOf(k), startAfter(k)), Rat(1, 2)) : k \in 1..n}

\* the two angles are equal modulo 2*PI
SameDirection(a, b) ==
  LET d == AngSub(a, b)
  IN  /\ IsFiniteAngle(d)
      /\ d[2] = Zero
      /\ d[1][2] = 0 /\ d[1][3] = 1 /\ d[1][1] % 2 = 0

\* a gap of one ring lies on the same radius as a gap of the other
GapsAlign(path1, path2) ==
  \E g1 \in GapCentres(path1), g2 \in GapCentres(path2) : SameDirection(g1, g2)

\* C27: for every ring configuration with cutCount >= 1, gridDivisions >= 1
\* and staggerOffset >= 1, the gaps of two adjacent segmented rings, of an
\* odd index i >= 1 and of the even index i + 1, never align radially: no
\* gap-centre angle of one equals, modulo 2*PI, a gap-centre angle of the
\* other.
C27_AdjacentGapsNeverAlign ==
  (/\ fn = "generateRingPattern"
   /\ RingConfigField("cutCount") >= 1
   /\ RingConfigField("gridDivisions") >= 1
   /\ RingConfigField("staggerOffset") >= 1) =>
    \A k \in 1..(Len(pattern.rings) - 1) :
      (/\ pattern.rings[k].index % 2 = 1
       /\ IsSegmented(pattern.rings[k].pathData)
       /\ IsSegmented(pattern.rings[k + 1].pathData)) =>
        ~GapsAlign(pattern.rings[k].pathData, pattern.rings[k + 1].pathData)

\* the extents the pattern returns: radii, or sizes for squares
PatternExtents ==
  IF fn = "generateSquarePattern" THEN pattern.sizes ELSE pattern.radii

\* the extent of an element: its radius, or its size for a square
ElementExtent(element) ==
  IF fn = "generateSquarePattern" THEN element.size ELSE element.radius

\* C28: in every result of generateRingPattern, generateSquarePattern and
\* generatePolygonPattern the element list is as long as the returned extent
\* list (radii / sizes), and element i has index i and the extent extents[i]:
\* the indices are 0..n-1 without gaps from the outermost element inward,
\* also when the shrinkage mode returns fewer extents than the count.
C28_ElementsMatchExtents ==
  (PatternReturned /\ fn # "generateSpiralPattern") =>
    /\ Len(PatternElements) = Len(PatternExtents)
    /\ \A k \in 1..Len(PatternElements) :
         /\ PatternElements[k].index = k - 1
         /\ ElementExtent(PatternElements[k]) = PatternExtents[k]

\* a pattern in shrinkage mode with elements, but fewer than its count
C28_Witness ==
  /\ PatternReturned /\ fn # "generateSpiralPattern"
  /\ MergedConfigOfCall.spacingMode = "shrinkage"
  /\ Len(PatternElements) >= 2
  /\ Len(PatternElements) < CountOfCall
  /\ PatternElements[2].index = 1
  /\ ElementExtent(PatternElements[2]) = PatternExtents[2]

----------------------------------------------------------------------------
(* Calls on a path builder.  Every call is logged in history: the method,  *)
(* its arguments and, for build, the string returned.                      *)

\* most calls made on the builder
MaxCalls == 4

\* the points and radii the builder is called with
BuilderPoints == {Point(Num(0), Num(0)), Point(Rat(1, 8), Num(0 - 50))}
BuilderRadii == {Num(50), Rat(1, 8)}

BuilderFrame == UNCHANGED <<fn, args, ret, pattern, store>>

BuilderMoveTo ==
  /\ fn = "none" /\ Len(history) < MaxCalls
  /\ \E p \in BuilderPoints :
       /\ commands' = moveTo(commands, p)
       /\ history' = Append(history, [fn |-> "moveTo", p |-> p])
  /\ BuilderFrame

BuilderLineTo ==
  /\ fn = "none" /\ Len(history) < MaxCalls
  /\ \E p \in BuilderPoints :
       /\ commands' = lineTo(commands, p)
       /\ history' = Append(history, [fn |-> "lineTo", p |-> p])
  /\ BuilderFrame

BuilderArcTo ==
  /\ fn = "none" /\ Len(history) < MaxCalls
  /\ \E radius \in BuilderRadii, largeArc \in BOOLEAN :
       /\ commands' = arcTo(commands, radius, Point(Num(0), Num(0)), largeArc, TRUE)
       /\ history' = Append(history, [fn |-> "arcTo", radius |-> radius,
                                      p |-> Point(Num(0), Num(0)),
                                      largeArc |-> largeArc, sweep |-> TRUE])
  /\ BuilderFrame

BuilderClosePath ==
  /\ fn = "none" /\ Len(history) < MaxCalls
  /\ commands' = closePath(commands)
  /\ history' = Append(history, [fn |-> "closePath"])
  /\ BuilderFrame

\* build() returns the string and leaves the builder as it is
BuilderBuild ==
  /\ fn = "none" /\ Len(history) < MaxCalls
  /\ history' = Append(history, [fn |-> "build", result |-> build(commands)])
  /\ UNCHANGED commands
  /\ BuilderFrame

BuilderReset ==
  /\ fn = "none" /\ Len(history) < MaxCalls
  /\ commands' = reset(commands)
  /\ history' = Append(history, [fn |-> "reset"])
  /\ BuilderFrame

BuilderNext ==
  \/ BuilderMoveTo
  \/ BuilderLineTo
  \/ BuilderArcTo
  \/ BuilderClosePath
  \/ BuilderBuild
  \/ BuilderReset

BuilderSpec == Init /\ [][BuilderNext]_vars

----------------------------------------------------------------------------
(* Properties of the path builder *)

\* the letter of the token a call issues
LetterOf(call) ==
  IF call.fn = "moveTo" THEN "M"
  ELSE IF call.fn = "lineTo" THEN "L"
  ELSE IF call.fn = "arcTo" THEN "A"
  ELSE "Z"

\* the token is the one the call issues: its letter, its point with two
\* decimals and, for an arc, its radius twice, no rotation and its flags
IsTokenOf(token, call) ==
  /\ token.op = LetterOf(call)
  /\ call.fn # "closePath" =>
       token.p = Point(round(call.p.x, 2), round(call.p.y, 2))
  /\ call.fn = "arcTo" =>
       /\ token.rx = round(call.radius, 2) /\ token.ry = round(call.radius, 2)
       /\ token.xAxisRotation = 0
       /\ token.largeArcFlag = (IF call.largeArc THEN 1 ELSE 0)
       /\ token.sweepFlag = (IF call.sweep THEN 1 ELSE 0)

\* the calls among the first k of the log that issue a token and come after
\* the last reset
RECURSIVE IssuedSinceReset(_, _)
IssuedSinceReset(log, k) ==
  IF k = 0 \/ log[k].fn = "reset" THEN <<>>
  ELSE IF log[k].fn = "build" THEN IssuedSinceReset(log, k - 1)
  ELSE Append(IssuedSinceReset(log, k - 1), log[k])

\* the string build() returned at call k is the serialization of the calls
\* issued before it since the last reset
BuiltFromIssued(log, k) ==
  LET issued == IssuedSinceReset(log, k - 1)
  IN  /\ Len(log[k].result) = Len(issued)
      /\ \A i \in 1..Len(issued) : IsTokenOf(log[k].result[i], issued[i])

\* C22: for any sequence of moveTo, lineTo, arcTo, closePath, reset and
\* build on a path builder, build() returns the serialization of exactly
\* the commands issued since the last reset() (or since construction), one
\* token per call in call order; build() does not change the command list
\* (two consecutive build() calls return the same string) and build() right
\* after reset() returns the empty string.
C22_BuildReturnsIssuedCommands ==
  \A k \in 1..Len(history) :
    (history[k].fn = "build") =>
      /\ BuiltFromIssued(history, k)
      /\ (k > 1 /\ history[k - 1].fn = "build") =>
           history[k].result = history[k - 1].result
      /\ (k > 1 /\ history[k - 1].fn = "reset") => history[k].result = <<>>

\* a command, a reset, another command and two builds of that command alone
C22_Witness ==
  /\ Len(history) = MaxCalls
  /\ history[MaxCalls - 3].fn = "moveTo"
  /\ history[MaxCalls - 2].fn = "reset"
  /\ history[MaxCalls - 1].fn = "lineTo"
  /\ history[MaxCalls].fn = "build"
  /\ Ops(history[MaxCalls].result) = <<"L">>

----------------------------------------------------------------------------
(* Repeated calls of the generators.  Each call is logged in history with  *)
(* the configuration passed and the pattern returned.                      *)

\* most generator calls in a row
MaxRepeats == 3

\* the configurations the generators are called with again and again: a
\* partial one, completed from the defaults, and a full one
RepeatRingConfigs ==
  [ringCount : {2}, cutCount : {2}]
    \cup [outerRadius : {Num(100)}, innerRadius : {Num(10)}, ringCount : {2},
          spacingMode : {"uniform"}, outerGap : {Num(50)},
          shrinkage : {Rat(1, 2)}, cutCount : {2}, gridDivisions : {4},
          staggerOffset : {1}, cutWidth : {Num(5)},
          showOuterBoundary : {TRUE}, center : {Point(Num(0), Num(0))}]

RepeatSquareConfigs ==
  [squareCount : {2}, alternating : {TRUE}]
    \cup [outerSize : {Num(100)}, innerSize : {Num(10)}, squareCount : {2},
          spacingMode : {"uniform"}, outerGap : {Num(50)},
          shrinkage : {Rat(1, 2)}, rotation : {90}, alternating : {TRUE},
          notchesPerSide : {2}, notchWidth : {Num(8)},
          showOuterBoundary : {FALSE}, center : {Point(Num(0), Num(0))}]

RepeatPolygonConfigs ==
  [polygonCount : {2}]
    \cup [sides : {6}, outerRadius : {Num(100)}, innerRadius : {Num(10)},
          polygonCount : {2}, spacingMode : {"shrinkage"},
          outerGap : {Num(50)}, shrinkage : {Rat(1, 2)}, rotation : {0},
          bridgeCount : {3}, bridgeWidth : {Num(8)},
          showOuterBoundary : {TRUE}, center : {Point(Num(0), Num(0))}]

RepeatSpiralConfigs ==
  [armCount : {2}, turns : {Rat(1, 16)}]
    \cup [armCount : {1}, outerRadius : {Num(100)}, innerRadius : {Num(10)},
          turns : {Rat(1, 16)}, spiralType : {"archimedean"},
          growthFactor : {Rat(2, 10)}, rotation : {90},
          strokeWidth : {Num(1)}, showOuterBoundary : {TRUE},
          center : {Point(Num(0), Num(0))}]

\* a generator was called with the configuration and returned the result
Logged(name, config, result) ==
  /\ history' = Append(history, [fn |-> name, config |-> config, pattern |-> result])
  /\ UNCHANGED <<fn, args, ret, pattern, commands, store>>

RepeatRingPattern ==
  /\ fn = "none" /\ Len(history) < MaxRepeats
  /\ \E config \in RepeatRingConfigs :
       Logged("generateRingPattern", config, generateRingPattern(config))

\* the configuration completed from the call logged last, where there is one
OntoLastCall(log, config) ==
  IF log = <<>> THEN config
  ELSE [f \in DOMAIN config \cup DOMAIN log[Len(log)].config |->
          IF f \in DOMAIN config THEN config[f] ELSE log[Len(log)].config[f]]

\* a generator that keeps the configuration of the call before as defaults
RepeatSquarePattern_OntoLastCall ==
  /\ fn = "none" /\ Len(history) < MaxRepeats
  /\ \E config \in RepeatSquareConfigs, log \in {history} :
       Logged("generateSquarePattern", config,
              generateSquarePattern(OntoLastCall(log, config)))

RepeatSquarePattern ==
  /\ fn = "none" /\ Len(history) < MaxRepeats
  /\ \E config \in RepeatSquareConfigs :
       Logged("generateSquarePattern", config, generateSquarePattern(config))

RepeatPolygonPattern ==
  /\ fn = "none" /\ Len(history) < MaxRepeats
  /\ \E config \in RepeatPolygonConfigs :
       Logged("generatePolygonPattern", config, generatePolygonPattern(config))

RepeatSpiralPattern ==
  /\ fn = "none" /\ Len(history) < MaxRepeats
  /\ \E config \in RepeatSpiralConfigs :
       Logged("generateSpiralPattern", config, generateSpiralPattern(config))

RepeatNext ==
  \/ RepeatRingPattern
  \/ RepeatSquarePattern
  \/ RepeatPolygonPattern
  \/ RepeatSpiralPattern

RepeatSpec == Init /\ [][RepeatNext]_vars

----------------------------------------------------------------------------
(* Properties of repeated calls *)

\* the elements of a logged pattern: rings, squares, polygons or arms
LoggedElements(call) ==
  IF call.fn = "generateRingPattern" THEN call.pattern.rings
  ELSE IF call.fn = "generateSquarePattern" THEN call.pattern.squares
  ELSE IF call.fn = "generatePolygonPattern" THEN call.pattern.polygons
  ELSE call.pattern.arms

\* the path strings of a logged pattern: one per element and the boundary
PathStrings(call) ==
  [elements |-> [i \in 1..Len(LoggedElements(call)) |-> LoggedElements(call)[i].pathData],
   outerBoundary |-> call.pattern.outerBoundary]

\* the two logged calls are of one generator with one configuration
SameCall(first, second) ==
  /\ first.fn = second.fn
  /\ DOMAIN first.config = DOMAIN second.config
  /\ first.config = second.config

----------------------------------------------------------------------------
(* Actions of the pattern store.  Each takes the state of the store and    *)
(* gives the state after set(...).                                         *)

\* { ...base, ...updates }
SpreadOver(base, updates) ==
  [f \in DOMAIN base \cup DOMAIN updates |->
     IF f \in DOMAIN updates THEN updates[f] ELSE base[f]]

\* Math.min and Math.max of two numbers: NaN when either is NaN
MathMin(x, y) == IF IsNaN(x) \/ IsNaN(y) THEN NaN ELSE IF XLt(y, x) THEN y ELSE x
MathMax(x, y) == IF IsNaN(x) \/ IsNaN(y) THEN NaN ELSE IF XLt(x, y) THEN y ELSE x

setPatternType(state, patternType) == [state EXCEPT !.patternType = patternType]

setRingConfig(state, updates) ==
  [state EXCEPT !.ringConfig = SpreadOver(state.ringConfig, updates)]

setSquareConfig(state, updates) ==
  [state EXCEPT !.squareConfig = SpreadOver(state.squareConfig, updates)]

setPolygonConfig(state, updates) ==
  [state EXCEPT !.polygonConfig = SpreadOver(state.polygonConfig, updates)]

setSpiralConfig(state, updates) ==
  [state EXCEPT !.spiralConfig = SpreadOver(state.spiralConfig, updates)]

setKerfAllowance(state, kerfAllowance) == [state EXCEPT !.kerfAllowance = kerfAllowance]

setExportUnit(state, exportUnit) == [state EXCEPT !.exportUnit = exportUnit]

\* Minimum zoom is 1 (fit to screen), max is 5
setZoom(state, zoom) == [state EXCEPT !.zoom = MathMax(One, MathMin(Num(5), zoom))]

setPan(state, panX, panY) == [state EXCEPT !.panX = panX, !.panY = panY]

resetView(state) == [state EXCEPT !.zoom = One, !.panX = Zero, !.panY = Zero]

\* a reset of the configuration of every family
resetConfig_EveryFamily(state) ==
  [state EXCEPT !.ringConfig = DEFAULT_CONFIG,
                !.squareConfig = DEFAULT_SQUARE_CONFIG,
                !.polygonConfig = DEFAULT_POLYGON_CONFIG,
                !.spiralConfig = DEFAULT_SPIRAL_CONFIG]
\* switch (get().patternType)
resetConfig(state) ==
  IF state.patternType = "rings" THEN [state EXCEPT !.ringConfig = DEFAULT_CONFIG]
  ELSE IF state.patternType = "squares"
    THEN [state EXCEPT !.squareConfig = DEFAULT_SQUARE_CONFIG]
  ELSE IF state.patternType = "polygons"
    THEN [state EXCEPT !.polygonConfig = DEFAULT_POLYGON_CONFIG]
  ELSE IF state.patternType = "spirals"
    THEN [state EXCEPT !.spiralConfig = DEFAULT_SPIRAL_CONFIG]
  ELSE state

\* Legacy compatibility - maps to ringConfig
setConfig(state, updates) ==
  [state EXCEPT !.ringConfig = SpreadOver(state.ringConfig, updates)]

\* Mouse wheel zoom: the zoom the canvas asks for
WheelZoom(zoom, deltaY) == XMul(zoom, IF deltaY > 0 THEN Rat(9, 10) ELSE Rat(11, 10))
handleWheel(state, deltaY) == setZoom(state, WheelZoom(state.zoom, deltaY))

----------------------------------------------------------------------------
(* The store in use: any of its actions at any time.  Wheel events are     *)
(* logged in history, which bounds their number.                           *)

\* most wheel events
MaxWheel == 2

\* the updates the panels of each family send
RingUpdates == {[cutCount |-> 0, showOuterBoundary |-> FALSE]}
LegacyUpdates == {[ringCount |-> 3]}
SquareUpdates == {[alternating |-> FALSE]}
PolygonUpdates == {[sides |-> 8, bridgeCount |-> 2]}
SpiralUpdates == {[armCount |-> 6]}

\* the zooms asked for: not a number, the infinities, below, inside and
\* above the range
ZoomValues == {NaN, NegInf, PosInf, Num(0 - 1), Zero, One, Rat(9, 2), Num(5), Num(7)}
PanValues == {<<Zero, Zero>>, <<Num(0 - 40), Rat(51, 2)>>}
KerfValues == {Zero, Rat(1, 100)}

StoreFrame == UNCHANGED <<fn, args, ret, pattern, commands, history>>

StoreSetPatternType ==
  /\ fn = "none"
  /\ \E type \in PatternTypes : store' = setPatternType(store, type)
  /\ StoreFrame

StoreSetRingConfig ==
  /\ fn = "none"
  /\ \E updates \in RingUpdates : store' = setRingConfig(store, updates)
  /\ StoreFrame

StoreSetSquareConfig ==
  /\ fn = "none"
  /\ \E updates \in SquareUpdates : store' = setSquareConfig(store, updates)
  /\ StoreFrame

StoreSetPolygonConfig ==
  /\ fn = "none"
  /\ \E updates \in PolygonUpdates : store' = setPolygonConfig(store, updates)
  /\ StoreFrame

StoreSetSpiralConfig ==
  /\ fn = "none"
  /\ \E updates \in SpiralUpdates : store' = setSpiralConfig(store, updates)
  /\ StoreFrame

StoreSetConfig ==
  /\ fn = "none"
  /\ \E updates \in LegacyUpdates : store' = setConfig(store, updates)
  /\ StoreFrame

StoreResetConfig ==
  /\ fn = "none"
  /\ store' = resetConfig(store)
  /\ StoreFrame

StoreSetKerfAllowance ==
  /\ fn = "none"
  /\ \E kerf \in KerfValues : store' = setKerfAllowance(store, kerf)
  /\ StoreFrame

StoreSetExportUnit ==
  /\ fn = "none"
  /\ \E unit \in {"inches", "mm"} : store' = setExportUnit(store, unit)
  /\ StoreFrame

StoreSetZoom ==
  /\ fn = "none"
  /\ \E zoom \in ZoomValues : store' = setZoom(store, zoom)
  /\ StoreFrame

StoreSetPan ==
  /\ fn = "none"
  /\ \E pan \in PanValues : store' = setPan(store, pan[1], pan[2])
  /\ StoreFrame

StoreResetView ==
  /\ fn = "none"
  /\ store' = resetView(store)
  /\ StoreFrame

HandleWheel ==
  /\ fn = "none" /\ Len(history) < MaxWheel
  /\ \E deltaY \in {0 - 1, 0, 1} :
       /\ store' = handleWheel(store, deltaY)
       /\ history' = Append(history, [fn |-> "handleWheel"])
  /\ UNCHANGED <<fn, args, ret, pattern, commands>>

StoreNext ==
  \/ StoreSetPatternType
  \/ StoreSetRingConfig
  \/ StoreSetSquareConfig
  \/ StoreSetPolygonConfig
  \/ StoreSetSpiralConfig
  \/ StoreSetConfig
  \/ StoreResetConfig
  \/ StoreSetKerfAllowance
  \/ StoreSetExportUnit
  \/ StoreSetZoom
  \/ StoreSetPan
  \/ StoreResetView
  \/ HandleWheel

StoreSpec == Init /\ [][StoreNext]_vars

----------------------------------------------------------------------------
(* Properties of the pattern store *)

\* the step leaves every field of the store but the given one as it was
StoreKeepsAllBut(field) ==
  \A f \in DOMAIN store : f # field => store'[f] = store[f]

\* the configuration field of a pattern family
FamilyField(patternType) ==
  IF patternType = "rings" THEN "ringConfig"
  ELSE IF patternType = "squares" THEN "squareConfig"
  ELSE IF patternType = "polygons" THEN "polygonConfig"
  ELSE "spiralConfig"

\* C29: every store action aimed at one pattern family (setRingConfig,
\* setSquareConfig, setPolygonConfig, setSpiralConfig, the legacy setConfig
\* of the rings, and resetConfig for the current patternType) changes only
\* the configuration of that family: the configurations of the other three
\* families, patternType, kerfAllowance, zoom and pan stay as they were;
\* setPatternType changes patternType only, so switching the type and back
\* keeps every configuration.
C29_FamilyActionsKeepTheRest ==
  [][/\ (StoreSetRingConfig \/ StoreSetConfig) => StoreKeepsAllBut("ringConfig")
     /\ StoreSetSquareConfig => StoreKeepsAllBut("squareConfig")
     /\ StoreSetPolygonConfig => StoreKeepsAllBut("polygonConfig")
     /\ StoreSetSpiralConfig => StoreKeepsAllBut("spiralConfig")
     /\ StoreResetConfig => StoreKeepsAllBut(FamilyField(store.patternType))
     /\ StoreSetPatternType => StoreKeepsAllBut("patternType")]_vars

\* the ring and square panels and the legacy action have changed their
\* configurations, the type was switched to the spirals, and all the rest,
\* changed before, is still as it was set
C29_Witness ==
  /\ store.patternType = "spirals"
  /\ store.ringConfig = SpreadOver(SpreadOver(DEFAULT_CONFIG, [ringCount |-> 3]),
                                   [cutCount |-> 0, showOuterBoundary |-> FALSE])
  /\ store.squareConfig = SpreadOver(DEFAULT_SQUARE_CONFIG, [alternating |-> FALSE])
  /\ store.polygonConfig = DEFAULT_POLYGON_CONFIG
  /\ store.spiralConfig = DEFAULT_SPIRAL_CONFIG
  /\ store.kerfAllowance = Rat(1, 100)
  /\ store.zoom = Rat(9, 2)
  /\ store.panX = Num(0 - 40)


\* C30: after any sequence of setZoom(z) with any number z, of wheel events
\* (zoom * 0.9 or zoom * 1.1), of setPan and of resetView, the zoom of the
\* store is a number from 1 to 5; resetView sets the zoom to 1 and the pan
\* to (0, 0) and leaves every configuration as it was.
C30_ZoomWithinRange ==
  /\ IsFinite(store.zoom)
  /\ ~Lt(store.zoom, One)
  /\ ~Lt(Num(5), store.zoom)

====
